---- MODULE Spec2Model ----
(***************************************************************************)
(* Pull engine of the Aquarium Persistor (Azure): run_persistor spawns N   *)
(* begin_processing coroutines, each of which starts one receive task      *)
(* (Service Bus pull_loop, or the Event Hub on_events callback driven by   *)
(* receive_batch), optionally bounded by receive_duration, next to the     *)
(* update_time refresh coroutine of the timed append mode.                 *)
(*                                                                         *)
(* Scheduling is asyncio's: one coroutine runs at a time, from one await   *)
(* to the next.  Every action below is one such step; pc[t] names the      *)
(* await a receive task is suspended at.  task.cancel() only requests the  *)
(* cancellation: CancelledError is thrown into the task at its             *)
(* next resumption, whatever the awaited operation did in the meantime.    *)
(*                                                                         *)
(* generate_append_blob is followed await by await as well: the caller is  *)
(* suspended at get_blob_properties and at create_append_blob.  Spec keeps *)
(* the wall clock at one instant for the whole invocation; SpecShared lets *)
(* it advance between steps and between the two datetime.now() readings of *)
(* one call.                                                               *)
(***************************************************************************)
EXTENDS Integers, Sequences, FiniteSets, TLC

\* ---- bounds of the model ----
NTasks == 2
MaxMsgs == 3
MaxBatch == 2
MaxFetch == 2
MaxFaultyWrites == 1
MaxRedelivered == 2
MaxAckFaults == 1
MaxTaskFaults == 1
NRuns == 2
MaxWrites == 1
MaxPush == 2
MaxCalls == 2
MaxInvoked == 3

\* ---- program constants ----
STORE_RETRY_POLICY_MAX == 3
DEFAULT_BATCH_MESSAGES_TO_STORE == 200
MAX_ALLOWED_BATCH_SIZE == 10000

Tasks == 1..NTasks
Msgs == 1..MaxMsgs
Runs == 1..NRuns

VARIABLES
    kind,            \* "SB" (PersistorServiceBusPullManager) or "EH" (PersistorEventHubPullManager)
    receive_duration,\* TRUE when a receive duration (time budget) is configured
    append,          \* manager.append
    timed_append,    \* manager.timed_append
    batch_size_to_store,
    file_name,       \* manager.file_name (<<>> is None)
    now,             \* manager.now (0 is None, else an index of Instants)
    clock,           \* wall clock, an index of Instants
    call,            \* the generate_append_blob call of the one invocation (or of
                     \* process_messages): the await it is suspended at, its caller,
                     \* its datetime.now() and its path
    nextMsg,         \* next message of the source that has not been delivered
    pc,              \* per receive task: the await it is suspended at
    ctx,             \* per receive task: the call site of the running store_batch
    data,            \* per receive task: the in-memory batch
    batch,           \* per receive task: fetched messages not yet moved into data
                     \* (Event Hub, between callbacks: events to be handed again)
    msg_num,         \* per receive task: msg_num / event_num
    inflight,        \* per receive task: message whose complete() is awaited (EH: last_event)
    attempt,         \* per receive task: i of the retry loop of save_to_storage
    live,            \* per receive task: the receiver was open when the awaited
                     \* complete() / abandon() was called
    flushes,         \* per receive task: the Writer calls that returned, in order
    blob,            \* how many times each record was written to the store
    completed,       \* messages whose complete() succeeded
    abandoned,       \* messages whose abandon() succeeded
    checkpoint,      \* per receive task: event of the last update_checkpoint (0: none)
    processed_messages, \* processed_messages[0]
    counted,         \* per receive task: how much it has added to processed_messages[0]
    cleanup,         \* per receive task: where it was, and its data and batch, when
                     \* CancelledError was delivered
    chunks,          \* per Event Hub receive: sizes of the chunks handed to on_events
    recv,            \* per receive task: the messages the source delivered to it, in order
    bp,              \* per begin_processing coroutine: its position
    closed,          \* per receive task: its client / receiver has been closed
    ctl,             \* process_controller: its position
    finished_process,\* finished_process[0]
    upd,             \* update_time: its position
    orc,             \* run_persistor: its position
    retval,          \* value returned by run_persistor
    faults,          \* environment faults so far: calls of the storage account that
                     \* failed (store: Writer calls with failing attempts, failing
                     \* get_blob_properties and create_append_blob calls), failing
                     \* complete() calls (ack), client and receiver faults (task)
    runs,            \* per run_persistor invocation on the one manager: its position,
                     \* its generate_append_blob call, its flag and counter objects
    append_lock,     \* manager.append_lock: the holder, then the waiters in order
    blobs,           \* the append blobs that exist in the container
    cells,           \* the list objects finished_process / processed_messages
                     \* allocated by the invocations
    output_binding,  \* manager.output_binding (PersistorPushManager)
    push,            \* the process_messages call of the push manager
    wr,              \* the save_to_storage call in progress, or the last one
    log,             \* the save_to_storage calls before wr, in order
    container,       \* the append_block / upload_blob calls that took effect
    uuid4,           \* how many uuids uuid.uuid4() has handed out
    prefetch_param,  \* manager.prefetch_param
    params,          \* req.params of the HTTP request: the parameters given, as text
    task_num,        \* task_num of run_persistor (0 before the request is read)
    invoker          \* main of the invoker function and its invoke_func calls

cfgVars == <<kind, receive_duration, append, timed_append, batch_size_to_store>>
rotVars == <<file_name, now, clock, call>>
taskVars == <<nextMsg, pc, ctx, data, batch, msg_num, inflight, attempt, live, cleanup, chunks, recv>>
logVars == <<flushes, blob, completed, abandoned, checkpoint, processed_messages, counted>>
orcVars == <<bp, closed, ctl, finished_process, upd, orc, retval>>
sharedVars == <<runs, append_lock, blobs, cells>>
pullVars == <<kind, receive_duration, batch_size_to_store, taskVars, logVars, orcVars>>
pushVars == <<output_binding, push, wr, log, container, uuid4>>
reqVars == <<prefetch_param, params, task_num>>
vars == <<cfgVars, rotVars, taskVars, logVars, orcVars, faults, sharedVars, pushVars, reqVars,
          invoker>>

\* ---- helpers ----

Min(a, b) == IF a < b THEN a ELSE b

Range(s) == {s[i] : i \in 1..Len(s)}

RECURSIVE SumLens(_)
SumLens(s) == IF s = <<>> THEN 0 ELSE Len(Head(s).recs) + SumLens(Tail(s))

RECURSIVE Concat(_)
Concat(s) == IF s = <<>> THEN <<>> ELSE Head(s).recs \o Concat(Tail(s))

Digits == <<"0", "1", "2", "3", "4", "5", "6", "7", "8", "9">>

\* str() of a non-negative int
RECURSIVE str(_)
str(n) == IF n < 10 THEN Digits[n + 1] ELSE str(n \div 10) \o Digits[(n % 10) + 1]

\* int() of the text of a request parameter (a sequence of characters)
DigitValue(ch) == CHOOSE k \in 0..9 : Digits[k + 1] = ch

RECURSIVE int_digits(_)
int_digits(s) == IF s = <<>> THEN 0
                 ELSE 10 * int_digits(SubSeq(s, 1, Len(s) - 1)) + DigitValue(s[Len(s)])

int(s) == IF Head(s) = "-" THEN 0 - int_digits(Tail(s)) ELSE int_digits(s)

\* int(req.get(req_key, default_val)) of HTTP_REQ_INT_PARAMS
int_param(rq, req_key, default_val) ==
    IF req_key \in DOMAIN rq THEN int(rq[req_key]) ELSE default_val

\* batch_size with the request's size taken as it is
batch_size_unlimited(rq, prefetch) ==
    int_param(rq, "batch_store_size", DEFAULT_BATCH_MESSAGES_TO_STORE)

\* run_persistor: self.batch_size_to_store
batch_size(rq, prefetch) ==
    Min(int_param(rq, "batch_store_size", DEFAULT_BATCH_MESSAGES_TO_STORE),
        MAX_ALLOWED_BATCH_SIZE - prefetch)

\* the texts a request gives for N and for batch_store_size, the requests
\* (either parameter may be missing), and the configured prefetch sizes
TaskTexts == {<<"1">>, <<"2">>, <<"5">>}
SizeTexts == {<<"0">>, <<"1">>, <<"2">>, <<"2", "0", "0">>, <<"9", "4", "8", "8">>,
              <<"9", "4", "8", "9">>, <<"9", "9", "9", "9">>, <<"1", "0", "0", "0", "0">>,
              <<"2", "0", "0", "0", "0">>, <<"-", "5">>}
HttpRequests ==
    {rq \in UNION {[S -> TaskTexts \cup SizeTexts] : S \in SUBSET {"N", "batch_store_size"}} :
        /\ "N" \in DOMAIN rq => rq["N"] \in TaskTexts
        /\ "batch_store_size" \in DOMAIN rq => rq["batch_store_size"] \in SizeTexts}
\* the requests of the runs that go on to receive: N is the number of
\* receive tasks, batch_store_size any size up to MaxBatch
PullRequests ==
    {[N |-> <<Digits[NTasks + 1]>>, batch_store_size |-> <<Digits[r + 1]>>] : r \in 1..MaxBatch}
Prefetches == {0, 1, 2, 512, 10000, 10001}

\* wall-clock instants the clock steps through (day, hour, minute)
Instants == << [d |-> 1, h |-> 23, m |-> 58],
               [d |-> 1, h |-> 23, m |-> 59],
               [d |-> 2, h |-> 0,  m |-> 0] >>

\* generate_file_name: "{store_param}/{year}/{month}/{day}/{blob_name}.txt";
\* a uuid blob name is <<-1, u>> (<<-2, -2>> for a block blob), a timed one
\* is <<hour, minute>>.
generate_file_name(c, name) == <<Instants[c].d>> \o name

\* generate_append_blob: the blob name, "{hour}-{minute}" when time based,
\* else the uuid4 u the call draws
append_name(c, time_based, u) ==
    IF time_based THEN <<Instants[c].h, Instants[c].m>> ELSE <<-1, u>>

\* generate_append_blob inside the lock block: the test that sends the call to
\* get_blob_properties (mnow is manager.now)
append_rotates(c, time_based, mnow) ==
    \/ ~time_based
    \/ mnow = 0
    \/ Instants[c].h > Instants[mnow].h
    \/ Instants[c].m > Instants[mnow].m

\* generate_append_blob up to its lock block: now = datetime.now() read at
\* c1, the blob name from it, and the path, for which generate_file_name
\* reads the clock again (c2); u is the uuid4 of a name that is not time based
generate_append_blob(c1, c2, time_based, u) ==
    [now |-> c1, ret |-> generate_file_name(c2, append_name(c1, time_based, u))]

\* The synchronous part of the receive loops: messages move from the fetched
\* chunk into the in-memory batch until the counter reaches a multiple of the
\* batch size (store_batch is then called) or the chunk is used up.
RECURSIVE move_messages(_, _, _, _)
move_messages(d, b, k, size) ==
    IF b = <<>>
    THEN [data |-> d, batch |-> b, num |-> k, flush |-> FALSE]
    ELSE LET d2 == Append(d, Head(b))
             k2 == k + 1
         IN  IF k2 % size = 0
             THEN [data |-> d2, batch |-> Tail(b), num |-> k2, flush |-> TRUE]
             ELSE move_messages(d2, Tail(b), k2, size)

\* save_to_storage: destination of a write
write_path == IF append THEN file_name ELSE generate_file_name(clock, <<-2, -2>>)

Awaits == {"fetch", "wait", "write", "backoff", "complete", "checkpoint", "abandon"}
Ended == {"done", "failed", "cancelled"}

NoCleanup == [asked |-> FALSE, hit |-> FALSE, pc |-> "idle", data |-> <<>>, batch |-> <<>>,
              at |-> 0]

\* The awaited operation of task t may resume it: no cancellation is pending
\* (task.cancel() makes the delivery of CancelledError the task's next step).
runnable(t) == cleanup[t].asked => cleanup[t].hit

\* the one invocation is not inside generate_append_blob
Outside == [pc |-> "none", who |-> "none", now |-> 0, ret |-> <<>>]

\* no generate_append_blob call made yet
NoCall == [pc |-> "none", who |-> "run", now |-> 0, ret |-> <<>>, seen |-> 0,
           rotated |-> FALSE, create |-> "none",
           before |-> [now |-> 0, file_name |-> <<>>],
           after |-> [now |-> 0, file_name |-> <<>>]]

\* an invocation of run_persistor that has not started
NoRun == [orc |-> "start", ctl |-> "new", upd |-> "none", tasks |-> "new",
          flag |-> 0, ctr |-> 0, own |-> 0, writes |-> 0, initial |-> <<>>,
          paths |-> {}, retval |-> "None", call |-> NoCall,
          size |-> 0, msg_num |-> 0, held |-> 0, stored |-> <<>>,
          write |-> [pc |-> "idle", path |-> <<>>, n |-> 0, left |-> 0, full |-> FALSE,
                     last |-> FALSE]]

\* no save_to_storage call yet
NoWrite == [pc |-> "idle", caller |-> "none", data |-> <<>>, append |-> FALSE,
            file_append_name |-> <<>>, file_name |-> <<>>, tried |-> <<>>,
            slept |-> 0, result |-> FALSE]

\* the invoker function before it is triggered
NoInvoker == [pc |-> "idle", n |-> 0, calls |-> <<>>, out |-> ""]

\* no process_messages call yet
NoPush == [pc |-> "idle", messages |-> <<>>, file_name |-> <<>>, given |-> FALSE,
           output_blob |-> "absent", writer_calls |-> 0]

\* ---- initial state: the manager as constructed, before run_persistor ----

Constructed ==
    /\ kind \in {"SB", "EH"}
    /\ receive_duration \in BOOLEAN
    /\ append \in BOOLEAN
    /\ timed_append \in BOOLEAN
    /\ timed_append => append
    /\ batch_size_to_store = DEFAULT_BATCH_MESSAGES_TO_STORE
    /\ file_name = <<>>
    /\ now = 0
    /\ clock = 1
    /\ call = Outside
    /\ nextMsg = 1
    /\ pc = [t \in Tasks |-> "idle"]
    /\ ctx = [t \in Tasks |-> "loop"]
    /\ data = [t \in Tasks |-> <<>>]
    /\ batch = [t \in Tasks |-> <<>>]
    /\ msg_num = [t \in Tasks |-> 0]
    /\ inflight = [t \in Tasks |-> 0]
    /\ attempt = [t \in Tasks |-> 0]
    /\ live = [t \in Tasks |-> TRUE]
    /\ cleanup = [t \in Tasks |-> NoCleanup]
    /\ chunks = [t \in Tasks |-> <<>>]
    /\ recv = [t \in Tasks |-> <<>>]
    /\ flushes = [t \in Tasks |-> <<>>]
    /\ blob = [m \in Msgs |-> 0]
    /\ completed = {}
    /\ abandoned = {}
    /\ checkpoint = [t \in Tasks |-> 0]
    /\ processed_messages = 0
    /\ counted = [t \in Tasks |-> 0]
    /\ bp = [t \in Tasks |-> "new"]
    /\ closed = [t \in Tasks |-> FALSE]
    /\ ctl = "new"
    /\ finished_process = FALSE
    /\ upd = "none"
    /\ orc = "start"
    /\ retval = "None"
    /\ faults = [store |-> 0, ack |-> 0, task |-> 0]
    /\ runs = [i \in Runs |-> NoRun]
    /\ append_lock = <<>>
    /\ blobs = {}
    /\ cells = [i \in Runs |-> [finished |-> FALSE, processed |-> 0]]
    /\ push = NoPush
    /\ wr = NoWrite
    /\ log = <<>>
    /\ container = <<>>
    /\ uuid4 = NRuns
    /\ params = <<>>
    /\ task_num = 0
    /\ invoker = NoInvoker

\* the managers of the pull functions write through the blob client
\* and fetch MaxFetch messages at a time
Init ==
    /\ Constructed
    /\ output_binding = FALSE
    /\ prefetch_param = MaxFetch

\* ---- the receive tasks ----

SetTask(t, r) ==
    /\ pc' = [pc EXCEPT ![t] = r.pc]
    /\ ctx' = [ctx EXCEPT ![t] = r.ctx]
    /\ data' = [data EXCEPT ![t] = r.data]
    /\ batch' = [batch EXCEPT ![t] = r.batch]
    /\ msg_num' = [msg_num EXCEPT ![t] = r.num]
    /\ attempt' = [attempt EXCEPT ![t] = 0]
    /\ live' = [live EXCEPT ![t] = r.pc # "abandon" \/ ~closed[t]]

\* A chunk was handed to the loop (pull_loop after fetch_next, on_events on
\* entry): where the task suspends next.
after_receive(d, chunk, k) ==
    LET r == move_messages(d, chunk, k, batch_size_to_store) IN
    IF r.flush
    THEN [pc |-> "write", ctx |-> "loop", data |-> r.data, batch |-> r.batch, num |-> r.num]
    ELSE IF kind = "SB"
    THEN [pc |-> "fetch", ctx |-> "loop", data |-> r.data, batch |-> r.batch, num |-> r.num]
    ELSE IF r.data # <<>>
    THEN [pc |-> "write", ctx |-> "final", data |-> r.data, batch |-> r.batch, num |-> r.num]
    ELSE [pc |-> "wait", ctx |-> "loop", data |-> r.data, batch |-> r.batch, num |-> r.num]

\* store_batch returned normally (the in-memory batch d is empty by then).
after_store_batch(t, d) ==
    IF ctx[t] = "loop"
    THEN after_receive(d, batch[t], msg_num[t])
    ELSE IF ctx[t] = "final"
    THEN [pc |-> IF kind = "SB" THEN "done" ELSE "wait",
          ctx |-> "final", data |-> d, batch |-> batch[t], num |-> msg_num[t]]
    ELSE [pc |-> IF batch[t] # <<>> THEN "abandon" ELSE "done",
          ctx |-> "cancel", data |-> d, batch |-> batch[t], num |-> msg_num[t]]

chunk_of(n) == [i \in 1..n |-> nextMsg + i - 1]

\* pull_loop: fetch_next returned a chunk (empty at the end of the stream)
pull_loop(t) ==
    /\ kind = "SB"
    /\ pc[t] = "fetch"
    /\ runnable(t)
    /\ \E n \in 0..Min(MaxFetch, MaxMsgs + 1 - nextMsg) :
         /\ nextMsg' = nextMsg + n
         /\ recv' = [recv EXCEPT ![t] = @ \o chunk_of(n)]
         /\ IF n = 0
            THEN SetTask(t, [pc |-> IF data[t] # <<>> THEN "write" ELSE "done",
                             ctx |-> "final", data |-> data[t], batch |-> <<>>,
                             num |-> msg_num[t]])
            ELSE SetTask(t, after_receive(data[t], chunk_of(n), msg_num[t]))
    /\ UNCHANGED <<cfgVars, sharedVars, pushVars, reqVars, invoker, rotVars, logVars, orcVars, faults, inflight, cleanup, chunks>>

\* receiver_fault with the exception of fetch_next leaving pull_loop
receiver_fault_propagates(t) ==
    /\ kind = "SB"
    /\ pc[t] = "fetch"
    /\ runnable(t)
    /\ faults.task < MaxTaskFaults
    /\ faults' = [faults EXCEPT !.task = @ + 1]
    /\ pc' = [pc EXCEPT ![t] = "failed"]
    /\ UNCHANGED <<cfgVars, sharedVars, pushVars, reqVars, invoker, rotVars, logVars, orcVars, nextMsg, ctx, data,
                   batch, msg_num, inflight, attempt, live, cleanup, chunks, recv>>

\* pull_loop: fetch_next raised; "except Exception" logs it and the loop ends
receiver_fault(t) ==
    /\ kind = "SB"
    /\ pc[t] = "fetch"
    /\ runnable(t)
    /\ faults.task < MaxTaskFaults
    /\ faults' = [faults EXCEPT !.task = @ + 1]
    /\ pc' = [pc EXCEPT ![t] = "done"]
    /\ UNCHANGED <<cfgVars, sharedVars, pushVars, reqVars, invoker, rotVars, logVars, orcVars, nextMsg, ctx, data, batch,
                   msg_num, inflight, attempt, live, cleanup, chunks, recv>>

\* on_events: receive_batch hands the callback a chunk of events: the next n
\* events of the source, or (n = 0) the events since the last checkpoint that
\* are handed to it again after an earlier call raised.  data, last_event and
\* event_num are locals of the call and start empty.
on_events(t) ==
    /\ kind = "EH"
    /\ pc[t] = "wait"
    /\ runnable(t)
    /\ \E n \in 0..Min(MaxFetch, MaxMsgs + 1 - nextMsg) :
         LET events == IF n = 0 THEN batch[t] ELSE chunk_of(n) IN
         /\ n = 0 <=> batch[t] # <<>>
         /\ nextMsg' = nextMsg + n
         /\ SetTask(t, after_receive(<<>>, events, 0))
         /\ chunks' = [chunks EXCEPT ![t] = Append(@, Len(events))]
         /\ recv' = [recv EXCEPT ![t] = @ \o events]
    /\ UNCHANGED <<cfgVars, sharedVars, pushVars, reqVars, invoker, rotVars, logVars, orcVars, faults, inflight, cleanup>>

\* receive_batch: the event stream of this client ends
receive_end(t) ==
    /\ kind = "EH"
    /\ pc[t] = "wait"
    /\ runnable(t)
    /\ pc' = [pc EXCEPT ![t] = "done"]
    /\ UNCHANGED <<cfgVars, sharedVars, pushVars, reqVars, invoker, rotVars, logVars, orcVars, faults, nextMsg, ctx, data, batch,
                   msg_num, inflight, attempt, live, cleanup, chunks, recv>>

written(recs) == [m \in Msgs |-> IF m \in Range(recs) THEN blob[m] + 1 ELSE blob[m]]

\* a save_to_storage call that has returned: its data, its result, its
\* file_name and the store attempts it made (i + 1 of the retry loop)
flush_record(t, ok) ==
    [recs |-> data[t], ok |-> ok, path |-> write_path, tries |-> attempt[t] + 1]

\* events task t was handed more than once
redelivered(t) == Len(recv[t]) - Cardinality(Range(recv[t]))

\* on_error: the exception that left on_events is logged; on_error neither
\* closes the client nor raises.  Nothing else in receive / begin_processing
\* reacts to it, so what becomes of the receive is up to receive_batch of
\* azure-eventhub: it is over for this client (again = FALSE), or it goes on
\* from the checkpoint kept in the client's BlobCheckpointStore and the events
\* since the last checkpoint (those of the batch that was not stored and the
\* rest of the chunk) are handed to on_events again.
on_error(t, again) ==
    IF again
    THEN [pc |-> "wait", data |-> <<>>, batch |-> data[t] \o batch[t]]
    ELSE [pc |-> "done", data |-> data[t], batch |-> batch[t]]

\* An exception leaves store_batch.  pull_loop's "except Exception" logs it
\* and the loop is over (raised inside the CancelledError handler it leaves
\* the task); it leaves on_events, for which receive_batch calls on_error.
store_batch_raised(t, again) ==
    IF kind = "SB"
    THEN /\ pc' = [pc EXCEPT ![t] = IF ctx[t] = "cancel" THEN "failed" ELSE "done"]
         /\ UNCHANGED <<data, batch>>
    ELSE /\ again => redelivered(t) + Len(data[t]) + Len(batch[t]) <= MaxRedelivered
         /\ pc' = [pc EXCEPT ![t] = on_error(t, again).pc]
         /\ data' = [data EXCEPT ![t] = on_error(t, again).data]
         /\ batch' = [batch EXCEPT ![t] = on_error(t, again).batch]

\* save_to_storage inside store_batch: the store attempt succeeds, the Writer
\* returns (file_name, True) and store_batch goes on to acknowledge.
store_succeeds(t) ==
    /\ pc[t] = "write"
    /\ runnable(t)
    /\ blob' = written(data[t])
    /\ flushes' = [flushes EXCEPT ![t] = Append(@, flush_record(t, TRUE))]
    /\ IF kind = "SB"
       THEN /\ inflight' = [inflight EXCEPT ![t] = Head(data[t])]
            /\ data' = [data EXCEPT ![t] = Tail(@)]
            /\ pc' = [pc EXCEPT ![t] = "complete"]
            /\ live' = [live EXCEPT ![t] = ~closed[t]]
            /\ UNCHANGED <<processed_messages, counted>>
       ELSE /\ processed_messages' = processed_messages + Len(data[t])
            /\ counted' = [counted EXCEPT ![t] = @ + Len(data[t])]
            /\ data' = [data EXCEPT ![t] = <<>>]
            /\ inflight' = [inflight EXCEPT ![t] = data[t][Len(data[t])]]
            /\ pc' = [pc EXCEPT ![t] = "checkpoint"]
            /\ UNCHANGED live
    /\ UNCHANGED <<cfgVars, sharedVars, pushVars, reqVars, invoker, rotVars, orcVars, faults, nextMsg, ctx, batch, msg_num,
                   attempt, cleanup, chunks, recv, completed, abandoned, checkpoint>>

\* store_fails with store_batch not looking at the Writer's result: after
\* the last failed attempt it acknowledges as after a successful write
store_fails_unchecked(t) ==
    /\ pc[t] = "write"
    /\ runnable(t)
    /\ attempt[t] > 0 \/ faults.store < MaxFaultyWrites
    /\ faults' = [faults EXCEPT !.store = IF attempt[t] = 0 THEN @ + 1 ELSE @]
    /\ IF attempt[t] = STORE_RETRY_POLICY_MAX - 1
       THEN /\ flushes' = [flushes EXCEPT ![t] = Append(@, flush_record(t, FALSE))]
            /\ IF kind = "SB"
               THEN /\ inflight' = [inflight EXCEPT ![t] = Head(data[t])]
                    /\ data' = [data EXCEPT ![t] = Tail(@)]
                    /\ pc' = [pc EXCEPT ![t] = "complete"]
                    /\ live' = [live EXCEPT ![t] = ~closed[t]]
                    /\ UNCHANGED <<processed_messages, counted>>
               ELSE /\ processed_messages' = processed_messages + Len(data[t])
                    /\ counted' = [counted EXCEPT ![t] = @ + Len(data[t])]
                    /\ data' = [data EXCEPT ![t] = <<>>]
                    /\ inflight' = [inflight EXCEPT ![t] = data[t][Len(data[t])]]
                    /\ pc' = [pc EXCEPT ![t] = "checkpoint"]
                    /\ UNCHANGED live
       ELSE /\ pc' = [pc EXCEPT ![t] = "backoff"]
            /\ UNCHANGED <<flushes, inflight, data, live, processed_messages, counted>>
    /\ UNCHANGED <<cfgVars, sharedVars, pushVars, reqVars, invoker, rotVars, orcVars, nextMsg, ctx, batch, msg_num, attempt, cleanup,
                   chunks, recv, blob, completed, abandoned, checkpoint>>

\* store_fails with the retry loop giving up one attempt early
store_fails_early(t) ==
    /\ pc[t] = "write"
    /\ runnable(t)
    /\ attempt[t] > 0 \/ faults.store < MaxFaultyWrites
    /\ faults' = [faults EXCEPT !.store = IF attempt[t] = 0 THEN @ + 1 ELSE @]
    /\ IF attempt[t] = STORE_RETRY_POLICY_MAX - 2
       THEN /\ flushes' = [flushes EXCEPT ![t] = Append(@, flush_record(t, FALSE))]
            /\ \E again \in BOOLEAN : store_batch_raised(t, again)
       ELSE /\ pc' = [pc EXCEPT ![t] = "backoff"]
            /\ UNCHANGED <<flushes, data, batch>>
    /\ UNCHANGED <<cfgVars, sharedVars, pushVars, reqVars, invoker, rotVars, orcVars, nextMsg, ctx, msg_num, inflight,
                   attempt, live, cleanup, chunks, recv, blob, completed, abandoned, checkpoint,
                   processed_messages, counted>>

\* save_to_storage inside store_batch: a store attempt raises.  Before the
\* last attempt the Writer backs off; after it the Writer returns
\* (file_name, False) and store_batch raises PersistorStoreException.
store_fails(t) ==
    /\ pc[t] = "write"
    /\ runnable(t)
    /\ attempt[t] > 0 \/ faults.store < MaxFaultyWrites
    /\ faults' = [faults EXCEPT !.store = IF attempt[t] = 0 THEN @ + 1 ELSE @]
    /\ IF attempt[t] = STORE_RETRY_POLICY_MAX - 1
       THEN /\ flushes' = [flushes EXCEPT ![t] = Append(@, flush_record(t, FALSE))]
            /\ \E again \in BOOLEAN : store_batch_raised(t, again)
       ELSE /\ pc' = [pc EXCEPT ![t] = "backoff"]
            /\ UNCHANGED <<flushes, data, batch>>
    /\ UNCHANGED <<cfgVars, sharedVars, pushVars, reqVars, invoker, rotVars, orcVars, nextMsg, ctx, msg_num, inflight,
                   attempt, live, cleanup, chunks, recv, blob, completed, abandoned, checkpoint,
                   processed_messages, counted>>

\* save_to_storage: asyncio.sleep(STORE_RETRY_BACKOFF_TIME) is over, next attempt
backoff(t) ==
    /\ pc[t] = "backoff"
    /\ runnable(t)
    /\ pc' = [pc EXCEPT ![t] = "write"]
    /\ attempt' = [attempt EXCEPT ![t] = @ + 1]
    /\ UNCHANGED <<cfgVars, sharedVars, pushVars, reqVars, invoker, rotVars, logVars, orcVars, faults, nextMsg, ctx, data, batch,
                   msg_num, inflight, live, cleanup, chunks, recv>>

\* complete with a failing complete() leaving store_batch: the exception is
\* logged by pull_loop and the loop is over
complete_fault_raises(t) ==
    /\ pc[t] = "complete"
    /\ runnable(t)
    /\ \/ /\ live[t]
          /\ completed' = completed \cup {inflight[t]}
          /\ processed_messages' = processed_messages + 1
          /\ counted' = [counted EXCEPT ![t] = @ + 1]
          /\ IF data[t] # <<>>
             THEN /\ inflight' = [inflight EXCEPT ![t] = Head(data[t])]
                  /\ data' = [data EXCEPT ![t] = Tail(@)]
                  /\ live' = [live EXCEPT ![t] = ~closed[t]]
                  /\ UNCHANGED <<pc, ctx, batch, msg_num, attempt>>
             ELSE /\ inflight' = [inflight EXCEPT ![t] = 0]
                  /\ SetTask(t, after_store_batch(t, <<>>))
          /\ UNCHANGED faults
       \/ /\ ~live[t] \/ faults.ack < MaxAckFaults
          /\ faults' = IF ~live[t] THEN faults ELSE [faults EXCEPT !.ack = @ + 1]
          /\ inflight' = [inflight EXCEPT ![t] = 0]
          /\ pc' = [pc EXCEPT ![t] = IF ctx[t] = "cancel" THEN "failed" ELSE "done"]
          /\ UNCHANGED <<completed, processed_messages, counted, ctx, data, batch, msg_num, attempt, live>>
    /\ UNCHANGED <<cfgVars, sharedVars, pushVars, reqVars, invoker, rotVars, orcVars, nextMsg, cleanup, chunks, recv, flushes, blob,
                   abandoned, checkpoint>>

\* complete with the task adding one to its own count of the messages and
\* storing that in the shared counter
complete_own_count(t) ==
    /\ pc[t] = "complete"
    /\ runnable(t)
    /\ \/ /\ live[t]
          /\ completed' = completed \cup {inflight[t]}
          /\ processed_messages' = counted[t] + 1
          /\ counted' = [counted EXCEPT ![t] = @ + 1]
          /\ UNCHANGED faults
       \/ /\ ~live[t] \/ faults.ack < MaxAckFaults
          /\ faults' = IF ~live[t] THEN faults ELSE [faults EXCEPT !.ack = @ + 1]
          /\ UNCHANGED <<completed, processed_messages, counted>>
    /\ IF data[t] # <<>>
       THEN /\ inflight' = [inflight EXCEPT ![t] = Head(data[t])]
            /\ data' = [data EXCEPT ![t] = Tail(@)]
            /\ live' = [live EXCEPT ![t] = ~closed[t]]
            /\ UNCHANGED <<pc, ctx, batch, msg_num, attempt>>
       ELSE /\ inflight' = [inflight EXCEPT ![t] = 0]
            /\ SetTask(t, after_store_batch(t, <<>>))
    /\ UNCHANGED <<cfgVars, sharedVars, pushVars, reqVars, invoker, rotVars, orcVars, nextMsg, cleanup, chunks, recv, flushes, blob,
                   abandoned, checkpoint>>

\* store_batch (Service Bus): message.complete() returned or raised; the loop
\* pops the next message, or store_batch returns to its call site.
complete(t) ==
    /\ pc[t] = "complete"
    /\ runnable(t)
    /\ \/ /\ live[t]
          /\ completed' = completed \cup {inflight[t]}
          /\ processed_messages' = processed_messages + 1
          /\ counted' = [counted EXCEPT ![t] = @ + 1]
          /\ UNCHANGED faults
       \/ /\ ~live[t] \/ faults.ack < MaxAckFaults
          /\ faults' = IF ~live[t] THEN faults ELSE [faults EXCEPT !.ack = @ + 1]
          /\ UNCHANGED <<completed, processed_messages, counted>>
    /\ IF data[t] # <<>>
       THEN /\ inflight' = [inflight EXCEPT ![t] = Head(data[t])]
            /\ data' = [data EXCEPT ![t] = Tail(@)]
            /\ live' = [live EXCEPT ![t] = ~closed[t]]
            /\ UNCHANGED <<pc, ctx, batch, msg_num, attempt>>
       ELSE /\ inflight' = [inflight EXCEPT ![t] = 0]
            /\ SetTask(t, after_store_batch(t, <<>>))
    /\ UNCHANGED <<cfgVars, sharedVars, pushVars, reqVars, invoker, rotVars, orcVars, nextMsg, cleanup, chunks, recv, flushes, blob,
                   abandoned, checkpoint>>

\* store_batch (Event Hub): partition_context.update_checkpoint(last_event) returned
update_checkpoint(t) ==
    /\ pc[t] = "checkpoint"
    /\ runnable(t)
    /\ checkpoint' = [checkpoint EXCEPT ![t] = inflight[t]]
    /\ inflight' = [inflight EXCEPT ![t] = 0]
    /\ SetTask(t, after_store_batch(t, <<>>))
    /\ UNCHANGED <<cfgVars, sharedVars, pushVars, reqVars, invoker, rotVars, orcVars, faults, nextMsg, cleanup, chunks, recv, flushes,
                   blob, completed, abandoned, processed_messages, counted>>

\* pull_loop, CancelledError handler: message.abandon() of the next message of
\* batch returned (the list is consumed here instead of iterated), or raised
\* because the receiver was closed, which ends the task with that exception.
abandon(t) ==
    /\ pc[t] = "abandon"
    /\ runnable(t)
    /\ IF ~live[t]
       THEN /\ pc' = [pc EXCEPT ![t] = "failed"]
            /\ live' = [live EXCEPT ![t] = TRUE]
            /\ UNCHANGED <<abandoned, batch>>
       ELSE /\ abandoned' = abandoned \cup {Head(batch[t])}
            /\ batch' = [batch EXCEPT ![t] = Tail(@)]
            /\ pc' = [pc EXCEPT ![t] = IF Tail(batch[t]) = <<>> THEN "done" ELSE "abandon"]
            /\ live' = [live EXCEPT ![t] = Tail(batch[t]) = <<>> \/ ~closed[t]]
    /\ UNCHANGED <<cfgVars, sharedVars, pushVars, reqVars, invoker, rotVars, orcVars, faults, nextMsg, ctx, data, msg_num, inflight,
                   attempt, cleanup, chunks, recv, flushes, blob, completed, checkpoint,
                   processed_messages, counted>>

\* CancelledError is thrown into task t at the await it is suspended at.
\* The awaited store write, complete() or update_checkpoint may or may not
\* have taken effect.  pull_loop's handler flushes data and then abandons
\* batch; on_events has no handler, the callback and the receive end.
cancelled(t, applied) ==
    /\ cleanup' = [cleanup EXCEPT ![t] =
                      [asked |-> TRUE, hit |-> TRUE, pc |-> pc[t], data |-> data[t],
                       batch |-> batch[t], at |-> Len(flushes[t])]]
    /\ applied => pc[t] \in {"write", "complete", "checkpoint"}
    /\ blob' = IF applied /\ pc[t] = "write" THEN written(data[t]) ELSE blob
    /\ applied /\ pc[t] = "complete" => live[t]
    /\ completed' = IF applied /\ pc[t] = "complete"
                    THEN completed \cup {inflight[t]} ELSE completed
    /\ checkpoint' = IF applied /\ pc[t] = "checkpoint"
                     THEN [checkpoint EXCEPT ![t] = inflight[t]] ELSE checkpoint
    /\ inflight' = [inflight EXCEPT ![t] = 0]
    /\ live' = [live EXCEPT ![t] = kind = "EH" \/ data[t] # <<>> \/ batch[t] = <<>>
                                   \/ ~closed[t]]
    /\ IF kind = "SB"
       THEN /\ pc' = [pc EXCEPT ![t] = IF data[t] # <<>> THEN "write"
                                       ELSE IF batch[t] # <<>> THEN "abandon" ELSE "done"]
            /\ ctx' = [ctx EXCEPT ![t] = "cancel"]
            /\ attempt' = [attempt EXCEPT ![t] = 0]
            /\ UNCHANGED data
       ELSE /\ pc' = [pc EXCEPT ![t] = "cancelled"]
            /\ data' = [data EXCEPT ![t] = <<>>]
            /\ UNCHANGED <<ctx, attempt>>

\* ---- save_to_storage is called ----

\* payloads of the delivered messages
Payloads == {"a", "b"}

\* the lists over S of at most n elements
Lists(S, n) == UNION {[1..k -> S] : k \in 0..n}

\* form_blob_json_string with form_store, no metadata: json.dumps({"DATA": payload})
form_blob_json_string(m) == "{\"DATA\": \"" \o m \o "\"}"

\* "\n".join(data)
RECURSIVE join(_)
join(d) == IF d = <<>> THEN ""
           ELSE IF Len(d) = 1 THEN d[1]
           ELSE d[1] \o "\n" \o join(Tail(d))

\* the data lists and append-blob names a caller passes to save_to_storage
\* (<<>> is None or the empty string); uuids up to NRuns were drawn earlier
Batches == Lists({form_blob_json_string(m) : m \in Payloads}, MaxPush) \ {<<>>}
AppendNames == {<<>>, generate_file_name(clock, append_name(clock, TRUE, 0)),
                generate_file_name(clock, append_name(clock, FALSE, NRuns))}

\* what the push function is triggered with: one message, or a list of them
Requests == {[list |-> FALSE, items |-> <<m>>] : m \in Payloads}
            \cup {[list |-> TRUE, items |-> l] : l \in Lists(Payloads, MaxPush)}

\* save_to_storage with the append blob name used without a test
destination_unchecked(a, f, u) ==
    IF ~a THEN [raised |-> FALSE, file_name |-> generate_file_name(clock, <<-1, u>>)]
    ELSE [raised |-> FALSE, file_name |-> f]

\* save_to_storage, before the retry loop: the blob to write to; u is the
\* uuid4 generate_file_name draws for a block blob
destination(a, f, u) ==
    IF ~a THEN [raised |-> FALSE, file_name |-> generate_file_name(clock, <<-1, u>>)]
    ELSE IF f = <<>> THEN [raised |-> TRUE, file_name |-> <<>>]
    ELSE [raised |-> FALSE, file_name |-> f]

\* save_to_storage is entered by who with (data, append, file_append_name):
\* it raises StorageTypeConfigurationException or enters the retry loop
save_to_storage(d, a, f, who) ==
    LET dst == destination(a, f, uuid4 + 1) IN
    /\ log' = IF wr.pc = "idle" THEN log ELSE Append(log, wr)
    /\ uuid4' = IF a THEN uuid4 ELSE uuid4 + 1
    /\ wr' = [NoWrite EXCEPT !.pc = IF dst.raised THEN "raised" ELSE "attempt",
                             !.caller = who, !.data = d, !.append = a,
                             !.file_append_name = f, !.file_name = dst.file_name]

\* ---- the orchestration ----

\* generate_append_blob is entered by who: the lock is free (one call at a
\* time on this manager), so "async with manager.append_lock" does not
\* suspend; the call suspends at get_blob_properties if the rotation test
\* sends it there, else it returns at once.
entered(who, u) ==
    LET g == generate_append_blob(clock, clock, timed_append, u) IN
    [pc |-> IF append_rotates(g.now, timed_append, now) THEN "locate" ELSE "done",
     who |-> who, now |-> g.now, ret |-> g.ret]

suspended == call.pc \in {"locate", "create"}

\* run_persistor starts update_time (timed append) and process_controller and
\* awaits their gather
gather_started ==
    /\ upd' = IF timed_append THEN "loop" ELSE "none"
    /\ ctl' = "gather"
    /\ orc' = "gather"

\* process_messages: the messages serialized in order, save_to_storage called
\* with the append blob name (<<>> is None)
messages_stored(items, name) ==
    LET d == [k \in 1..Len(items) |-> form_blob_json_string(items[k])] IN
    /\ push' = [push EXCEPT !.pc = "write", !.messages = items, !.file_name = name,
                            !.writer_calls = @ + 1]
    /\ save_to_storage(d, append, name, "push")

\* generate_append_blob returned c.ret to its caller: run_persistor assigns it
\* to manager.file_name and starts its gather, update_time goes to sleep,
\* process_messages goes on to save_to_storage.
caller_resumes(c) ==
    CASE c.who = "run" -> /\ gather_started
                          /\ UNCHANGED <<push, wr, log, uuid4>>
      [] c.who = "upd" -> UNCHANGED <<upd, ctl, orc, push, wr, log, uuid4>>
      [] OTHER -> /\ messages_stored(push.messages, c.ret)
                  /\ UNCHANGED <<upd, ctl, orc>>

\* generate_append_blob leaves its lock block after get_blob_properties or
\* create_append_blob: manager.now and manager.file_name are set, the path
\* is returned.
generate_append_blob_returns ==
    /\ now' = call.now
    /\ file_name' = call.ret
    /\ call' = [call EXCEPT !.pc = "done"]
    /\ caller_resumes(call)

\* run_persistor reads the request (N, batch_store_size), sets the batch size on
\* the manager and, in append mode, awaits generate_append_blob for the initial
\* destination; then it starts its gather.
run_persistor(rq) ==
    /\ orc = "start"
    /\ ~suspended
    /\ params' = rq
    /\ task_num' = int_param(rq, "N", 1)
    /\ batch_size_to_store' = batch_size(rq, prefetch_param)
    /\ IF append
       THEN LET c == entered("run", 1) IN
            IF c.pc = "locate"
            THEN /\ call' = c
                 /\ UNCHANGED <<file_name, upd, ctl, orc>>
            ELSE /\ file_name' = c.ret
                 /\ gather_started
                 /\ UNCHANGED call
       ELSE /\ gather_started
            /\ UNCHANGED <<file_name, call>>
    /\ UNCHANGED <<kind, receive_duration, append, timed_append, now, clock, taskVars, logVars,
                   bp, closed, finished_process, retval, faults, sharedVars, pushVars,
                   prefetch_param, invoker>>

\* generate_append_blob: get_blob_properties returned (the blob exists) or
\* raised ResourceNotFoundError, after which create_append_blob is awaited
get_blob_properties_returns ==
    /\ call.pc = "locate"
    /\ IF call.ret \in blobs
       THEN generate_append_blob_returns
       ELSE /\ call' = [call EXCEPT !.pc = "create"]
            /\ UNCHANGED <<now, file_name, upd, ctl, orc, push, wr, log, uuid4>>
    /\ UNCHANGED <<cfgVars, clock, taskVars, logVars, bp, closed, finished_process, retval,
                   faults, sharedVars, output_binding, container, reqVars, invoker>>

\* generate_append_blob: get_blob_properties raised another error, which leaves
\* the lock block and the call with manager.now and manager.file_name as they
\* were.  run_persistor raises it before anything is started; it ends the
\* update_time task, whose exception gather hands to run_persistor when the
\* event loop resumes it; process_messages raises it without calling
\* save_to_storage.
get_blob_properties_fails ==
    /\ call.pc = "locate"
    /\ faults.store < MaxFaultyWrites
    /\ faults' = [faults EXCEPT !.store = @ + 1]
    /\ call' = [call EXCEPT !.pc = "raised"]
    /\ CASE call.who = "run" -> /\ orc' = "raised"
                                /\ UNCHANGED <<upd, push>>
         [] call.who = "upd" -> /\ upd' = "raised"
                                /\ UNCHANGED <<orc, push>>
         [] OTHER -> /\ push' = [push EXCEPT !.pc = "raised"]
                     /\ UNCHANGED <<orc, upd>>
    /\ UNCHANGED <<cfgVars, file_name, now, clock, taskVars, logVars, bp, closed, ctl,
                   finished_process, retval, sharedVars, output_binding, wr, log, container,
                   uuid4, reqVars, invoker>>

\* generate_append_blob: create_append_blob returned, or raised, which
\* "except: pass" swallows whatever the cause (the blob exists by now, or
\* another error that leaves it absent); the call goes on either way.
append_blob_created ==
    /\ call.pc = "create"
    /\ \/ /\ blobs' = blobs \cup {call.ret}
          /\ UNCHANGED faults
       \/ /\ call.ret \notin blobs
          /\ faults.store < MaxFaultyWrites
          /\ faults' = [faults EXCEPT !.store = @ + 1]
          /\ UNCHANGED blobs
    /\ generate_append_blob_returns
    /\ UNCHANGED <<cfgVars, clock, taskVars, logVars, bp, closed, finished_process, retval,
                   runs, append_lock, cells, output_binding, container, reqVars, invoker>>

\* begin_processing: the client is created and time_constrained_pull starts
\* the receive task, which runs up to its first await.
begin_processing(t) ==
    /\ ctl = "gather"
    /\ bp[t] = "new"
    /\ bp' = [bp EXCEPT ![t] = IF receive_duration THEN "sleep" ELSE "await"]
    /\ pc' = [pc EXCEPT ![t] = IF kind = "SB" THEN "fetch" ELSE "wait"]
    /\ UNCHANGED <<cfgVars, sharedVars, pushVars, reqVars, invoker, rotVars, logVars, faults, nextMsg, ctx, data, batch, msg_num,
                   inflight, attempt, live, cleanup, chunks, recv, closed, ctl, finished_process,
                   upd, orc, retval>>

\* begin_processing (Service Bus): creating a client raises, the exception is
\* logged and re-raised.
client_fault(t) ==
    /\ kind = "SB"
    /\ ctl = "gather"
    /\ bp[t] = "new"
    /\ faults.task < MaxTaskFaults
    /\ faults' = [faults EXCEPT !.task = @ + 1]
    /\ bp' = [bp EXCEPT ![t] = "raised"]
    /\ UNCHANGED <<cfgVars, sharedVars, pushVars, reqVars, invoker, rotVars, taskVars, logVars, closed, ctl, finished_process,
                   upd, orc, retval>>

\* budget_expires with the block left without task.cancel()
budget_expires_no_cancel(t) ==
    /\ bp[t] = "sleep"
    /\ bp' = [bp EXCEPT ![t] = "closing"]
    /\ UNCHANGED <<cfgVars, sharedVars, pushVars, reqVars, invoker, rotVars, taskVars, logVars, faults,
                   closed, ctl, finished_process, upd, orc, retval>>

\* time_constrained_pull with a duration: the sleep is over, task.cancel(),
\* and the "async with client" block is left (its __aexit__ starts closing
\* the client).  cancel() on a task that has ended does nothing; otherwise it
\* only requests the cancellation, and the task stays at its await.
budget_expires(t) ==
    /\ bp[t] = "sleep"
    /\ bp' = [bp EXCEPT ![t] = "closing"]
    /\ cleanup' = [cleanup EXCEPT ![t].asked = pc[t] \notin Ended]
    /\ UNCHANGED <<cfgVars, sharedVars, pushVars, reqVars, invoker, rotVars, logVars, faults,
                   nextMsg, pc, ctx, data, batch, msg_num, inflight, attempt, live, chunks,
                   recv, closed, ctl, finished_process, upd, orc, retval>>

\* The event loop resumes the task whose cancellation was requested:
\* CancelledError is raised at the await it is suspended at.
cancel_delivered(t) ==
    /\ cleanup[t].asked
    /\ ~cleanup[t].hit
    /\ \E applied \in BOOLEAN : cancelled(t, applied)
    /\ UNCHANGED <<cfgVars, sharedVars, pushVars, reqVars, invoker, rotVars, faults, nextMsg, batch,
                   msg_num, chunks, recv, flushes, abandoned, processed_messages, counted,
                   orcVars>>

\* time_constrained_pull with a duration: the client is closed, the coroutine returns
client_closed(t) ==
    /\ bp[t] = "closing"
    /\ closed' = [closed EXCEPT ![t] = TRUE]
    /\ bp' = [bp EXCEPT ![t] = "done"]
    /\ UNCHANGED <<cfgVars, sharedVars, pushVars, reqVars, invoker, rotVars, taskVars, logVars, faults, ctl, finished_process,
                   upd, orc, retval>>

\* time_constrained_pull without a duration, returning without "await task"
task_awaited_early(t) ==
    /\ bp[t] = "await"
    /\ bp' = [bp EXCEPT ![t] = IF pc[t] = "failed" THEN "raised" ELSE "done"]
    /\ UNCHANGED <<cfgVars, sharedVars, pushVars, reqVars, invoker, rotVars, taskVars, logVars, faults, closed, ctl,
                   finished_process, upd, orc, retval>>

\* time_constrained_pull without a duration: "await task" returns (or raises)
task_awaited(t) ==
    /\ bp[t] = "await"
    /\ pc[t] \in Ended
    /\ bp' = [bp EXCEPT ![t] = IF pc[t] = "failed" THEN "raised" ELSE "done"]
    /\ UNCHANGED <<cfgVars, sharedVars, pushVars, reqVars, invoker, rotVars, taskVars, logVars, faults, closed, ctl,
                   finished_process, upd, orc, retval>>

\* process_controller: gather returned, every begin_processing has returned
process_controller ==
    /\ ctl = "gather"
    /\ \A t \in Tasks : bp[t] = "done"
    /\ finished_process' = TRUE
    /\ ctl' = "done"
    /\ UNCHANGED <<cfgVars, sharedVars, pushVars, reqVars, invoker, rotVars, taskVars, logVars, faults, bp, closed, upd, orc, retval>>

\* process_controller: gather raises the first exception of a begin_processing
controller_raises ==
    /\ ctl = "gather"
    /\ \E t \in Tasks : bp[t] = "raised"
    /\ ctl' = "failed"
    /\ UNCHANGED <<cfgVars, sharedVars, pushVars, reqVars, invoker, rotVars, taskVars, logVars, faults, bp, closed,
                   finished_process, upd, orc, retval>>

\* update_time: the sleep is over and the flag, read at the top of the loop,
\* is unset: generate_append_blob is called.  Without a rotation it returns
\* at once and update_time sleeps again; else the call suspends at
\* get_blob_properties and goes on whatever happens to the flag.
update_time ==
    /\ upd = "loop"
    /\ ~suspended
    /\ ~finished_process
    /\ LET c == entered("upd", 1) IN
       call' = IF c.pc = "locate" THEN c ELSE call
    /\ UNCHANGED <<cfgVars, sharedVars, pushVars, reqVars, invoker, file_name, now, clock,
                   taskVars, logVars, faults, orcVars>>

\* update_time: the sleep is over and the flag is set, the loop and the
\* coroutine end
update_time_exits ==
    /\ upd = "loop"
    /\ ~suspended
    /\ finished_process
    /\ upd' = "done"
    /\ UNCHANGED <<cfgVars, sharedVars, pushVars, reqVars, invoker, rotVars, taskVars, logVars, faults, bp, closed, ctl,
                   finished_process, orc, retval>>

\* run_persistor: gather returned; results[1] with timed append, else results[0]
results == IF timed_append THEN <<"None", str(processed_messages)>>
           ELSE <<str(processed_messages)>>

run_persistor_returns ==
    /\ orc = "gather"
    /\ ctl = "done"
    /\ upd \in {"none", "done"}
    /\ retval' = IF timed_append THEN results[2] ELSE results[1]
    /\ orc' = "returned"
    /\ UNCHANGED <<cfgVars, sharedVars, pushVars, reqVars, invoker, rotVars, taskVars, logVars, faults, bp, closed, ctl,
                   finished_process, upd>>

\* run_persistor: gather raises the first exception of process_controller or
\* of update_time
run_persistor_raises ==
    /\ orc = "gather"
    /\ ctl = "failed" \/ upd = "raised"
    /\ orc' = "raised"
    /\ UNCHANGED <<cfgVars, sharedVars, pushVars, reqVars, invoker, rotVars, taskVars, logVars, faults, bp, closed, ctl,
                   finished_process, upd, retval>>

Next ==
    \/ \E rq \in PullRequests : run_persistor(rq)
    \/ get_blob_properties_returns
    \/ get_blob_properties_fails
    \/ append_blob_created
    \/ \E t \in Tasks :
         \/ begin_processing(t)
         \/ client_fault(t)
         \/ pull_loop(t)
         \/ receiver_fault(t)
         \/ on_events(t)
         \/ receive_end(t)
         \/ store_succeeds(t)
         \/ store_fails(t)
         \/ backoff(t)
         \/ complete(t)
         \/ update_checkpoint(t)
         \/ abandon(t)
         \/ budget_expires(t)
         \/ cancel_delivered(t)
         \/ client_closed(t)
         \/ task_awaited(t)
    \/ process_controller
    \/ controller_raises
    \/ update_time
    \/ update_time_exits
    \/ run_persistor_returns
    \/ run_persistor_raises

Spec == Init /\ [][Next]_vars

\* The event loop runs every callback that is ready: a step that can be taken
\* is eventually taken.
FairSpec == Spec /\ WF_vars(Next)

\* The runs without a receive duration: time_constrained_pull awaits its
\* receive task and nothing is cancelled.
InitAwaited ==
    /\ Init
    /\ ~receive_duration

NextAwaited ==
    \/ \E rq \in PullRequests : run_persistor(rq)
    \/ get_blob_properties_returns
    \/ get_blob_properties_fails
    \/ append_blob_created
    \/ \E t \in Tasks :
         \/ begin_processing(t)
         \/ client_fault(t)
         \/ pull_loop(t)
         \/ receiver_fault(t)
         \/ on_events(t)
         \/ receive_end(t)
         \/ store_succeeds(t)
         \/ store_fails(t)
         \/ backoff(t)
         \/ complete(t)
         \/ update_checkpoint(t)
         \/ task_awaited(t)
    \/ process_controller
    \/ controller_raises
    \/ update_time
    \/ update_time_exits
    \/ run_persistor_returns
    \/ run_persistor_raises

SpecAwaited == InitAwaited /\ [][NextAwaited]_vars

FairAwaited == SpecAwaited /\ WF_vars(NextAwaited)

\* ---- invocations of run_persistor overlapping on one manager ----
\* The manager is created once per process and every request calls its
\* run_persistor, so invocations share manager.now, manager.file_name and
\* manager.append_lock.  Here generate_append_blob runs await by await; the
\* receive tasks of an invocation are reduced to the batches they write.

\* one list object kept on the manager and used by every invocation
shared_list(i) == 1

\* finished_process = [False] and processed_messages = [0]: a new list object
\* for every invocation
new_list(i) == i

\* the path a call of invocation i at instant c resolves
resolved(i, c) == generate_file_name(c, append_name(c, timed_append, i))

\* generate_append_blob is entered at the instant of the clock:
\* datetime.now(), the name, and the path, for which the clock is read again
\* (at c2)
call_begun(i, who, c2) ==
    [NoCall EXCEPT !.pc = "wait", !.who = who, !.now = clock,
                   !.ret = generate_append_blob(clock, c2, timed_append, i).ret]

\* the second reading of the clock: the same instant or the next
ClockReads == {clock, Min(clock + 1, Len(Instants))}

\* generate_append_blob returns to its caller with the rotation state
\* (mnow, mfile): the lock lk goes to its first waiter.  run_persistor assigns
\* the value of its call to manager.file_name and starts update_time (timed
\* append) and process_controller, which allocates the counter; update_time
\* goes to sleep.  r and cl are the invocation and the list objects as the
\* step has left them so far.
call_returns(i, r, lk, cl, c, mnow, mfile) ==
    LET done == [c EXCEPT !.pc = "done", !.after = [now |-> mnow, file_name |-> mfile]] IN
    /\ append_lock' = Tail(lk)
    /\ now' = mnow
    /\ IF c.who = "run"
       THEN /\ file_name' = c.ret
            /\ runs' = [runs EXCEPT ![i] =
                          [r EXCEPT !.call = done, !.initial = c.ret, !.orc = "gather",
                                    !.ctl = "gather", !.tasks = "running",
                                    !.ctr = new_list(i),
                                    !.upd = IF timed_append THEN "loop" ELSE "none"]]
            /\ cells' = [cl EXCEPT ![new_list(i)].processed = 0]
       ELSE /\ file_name' = mfile
            /\ runs' = [runs EXCEPT ![i] = [r EXCEPT !.call = done, !.upd = "loop"]]
            /\ cells' = cl

\* generate_append_blob inside "async with manager.append_lock", which the
\* call holds as the head of lk: the rotation test; the call goes on to
\* get_blob_properties or leaves the block at once.
lock_block(i, r, lk, cl, c0) ==
    LET c == [c0 EXCEPT !.seen = now, !.before = [now |-> now, file_name |-> file_name]] IN
    IF append_rotates(c.now, timed_append, now)
    THEN /\ runs' = [runs EXCEPT ![i] =
                       [r EXCEPT !.call = [c EXCEPT !.pc = "locate", !.rotated = TRUE]]]
         /\ append_lock' = lk
         /\ cells' = cl
         /\ UNCHANGED <<now, file_name>>
    ELSE call_returns(i, r, lk, cl, c, now, file_name)

\* generate_append_blob is called by who: a free lock with no waiters is
\* taken without suspending, else the call queues behind the holder.
call_entered(i, r, cl, who, c2) ==
    /\ clock' = c2
    /\ IF append_lock = <<>>
       THEN lock_block(i, r, <<i>>, cl, call_begun(i, who, c2))
       ELSE /\ runs' = [runs EXCEPT ![i] = [r EXCEPT !.call = call_begun(i, who, c2)]]
            /\ append_lock' = Append(append_lock, i)
            /\ cells' = cl
            /\ UNCHANGED <<now, file_name>>

\* run_persistor is invoked with batch_store_size r: the batch size is set on
\* the manager, the flag is allocated and the initial destination is asked for.
run_persistor_sized(i, r) ==
    /\ runs[i].orc = "start"
    /\ batch_size_to_store' = Min(r, MAX_ALLOWED_BATCH_SIZE - prefetch_param)
    /\ \E c2 \in ClockReads :
         call_entered(i, [runs[i] EXCEPT !.orc = "resolve", !.flag = new_list(i),
                                         !.size = batch_size_to_store'],
                      [cells EXCEPT ![new_list(i)].finished = FALSE], "run", c2)
    /\ UNCHANGED <<append, timed_append, call, blobs, kind, receive_duration, taskVars,
                   logVars, orcVars, pushVars, reqVars, invoker, faults>>

\* run_persistor is invoked by a request that gives no batch_store_size
run_persistor_invoked(i) == run_persistor_sized(i, DEFAULT_BATCH_MESSAGES_TO_STORE)

\* update_time: the sleep is over; the loop ends if the flag is set, else
\* generate_append_blob is called again.
update_time_wakes(i) ==
    /\ runs[i].orc = "gather"
    /\ runs[i].upd = "loop"
    /\ IF cells[runs[i].flag].finished
       THEN /\ runs' = [runs EXCEPT ![i].upd = "done"]
            /\ UNCHANGED <<append_lock, cells, now, file_name, clock>>
       ELSE \E c2 \in ClockReads :
                call_entered(i, [runs[i] EXCEPT !.upd = "call"], cells, "upd", c2)
    /\ UNCHANGED <<append, timed_append, call, blobs, pullVars, pushVars, reqVars, invoker, faults>>

\* generate_append_blob: the lock a call waited for was released to it
lock_acquired(i) ==
    /\ runs[i].call.pc = "wait"
    /\ append_lock # <<>>
    /\ Head(append_lock) = i
    /\ lock_block(i, runs[i], append_lock, cells, runs[i].call)
    /\ UNCHANGED <<append, timed_append, clock, call, blobs, pullVars, pushVars, reqVars, invoker, faults>>

\* generate_append_blob: get_blob_properties returned (the blob exists, the
\* rotation state is updated) or raised ResourceNotFoundError
get_blob_properties(i) ==
    /\ runs[i].call.pc = "locate"
    /\ LET c == runs[i].call IN
       IF c.ret \in blobs
       THEN call_returns(i, runs[i], append_lock, cells, c, c.now, c.ret)
       ELSE /\ runs' = [runs EXCEPT ![i].call.pc = "create"]
            /\ UNCHANGED <<now, file_name, append_lock, cells>>
    /\ UNCHANGED <<append, timed_append, clock, call, blobs, pullVars, pushVars, reqVars, invoker, faults>>

\* get_blob_properties_raises with the lock not released by the exception
get_blob_properties_raises_locked(i) ==
    /\ runs[i].call.pc = "locate"
    /\ faults.store < MaxFaultyWrites
    /\ faults' = [faults EXCEPT !.store = @ + 1]
    /\ runs' = [runs EXCEPT ![i] =
                  [@ EXCEPT !.call.pc = "raised",
                            !.orc = IF runs[i].call.who = "run" THEN "raised" ELSE @,
                            !.upd = IF runs[i].call.who = "upd" THEN "raised" ELSE @]]
    /\ UNCHANGED <<append, timed_append, rotVars, append_lock, blobs, cells, pullVars, pushVars, reqVars, invoker>>

\* generate_append_blob: get_blob_properties raised another error; it leaves
\* the lock block and the call, and with it the coroutine that made the call:
\* run_persistor, or the update_time task.
get_blob_properties_raises(i) ==
    /\ runs[i].call.pc = "locate"
    /\ faults.store < MaxFaultyWrites
    /\ faults' = [faults EXCEPT !.store = @ + 1]
    /\ append_lock' = Tail(append_lock)
    /\ runs' = [runs EXCEPT ![i] =
                  [@ EXCEPT !.call.pc = "raised",
                            !.orc = IF runs[i].call.who = "run" THEN "raised" ELSE @,
                            !.upd = IF runs[i].call.who = "upd" THEN "raised" ELSE @]]
    /\ UNCHANGED <<append, timed_append, rotVars, blobs, cells, pullVars, pushVars, reqVars, invoker>>

\* create_append_blob with a failed creation passed on to the caller
create_append_blob_unguarded(i) ==
    /\ runs[i].call.pc = "create"
    /\ LET c == runs[i].call IN
       IF c.ret \in blobs
       THEN /\ append_lock' = Tail(append_lock)
            /\ runs' = [runs EXCEPT ![i] =
                          [@ EXCEPT !.call = [c EXCEPT !.pc = "raised", !.create = "failed"],
                                    !.orc = IF c.who = "run" THEN "raised" ELSE @,
                                    !.upd = IF c.who = "upd" THEN "raised" ELSE @]]
            /\ UNCHANGED <<now, file_name, blobs, cells>>
       ELSE /\ blobs' = blobs \cup {c.ret}
            /\ call_returns(i, runs[i], append_lock, cells, [c EXCEPT !.create = "ok"],
                            c.now, c.ret)
    /\ UNCHANGED <<append, timed_append, clock, call, pullVars, pushVars, reqVars, invoker, faults>>

\* generate_append_blob: create_append_blob returned, or raised, which
\* "except: pass" swallows whatever the cause (the blob exists by now, or
\* another error that leaves it absent); the rotation state is updated.
create_append_blob(i) ==
    /\ runs[i].call.pc = "create"
    /\ LET c == runs[i].call IN
       \/ /\ blobs' = blobs \cup {c.ret}
          /\ call_returns(i, runs[i], append_lock, cells,
                          [c EXCEPT !.create = IF c.ret \in blobs THEN "failed" ELSE "ok"],
                          c.now, c.ret)
          /\ UNCHANGED faults
       \/ /\ c.ret \notin blobs
          /\ faults.store < MaxFaultyWrites
          /\ faults' = [faults EXCEPT !.store = @ + 1]
          /\ UNCHANGED blobs
          /\ call_returns(i, runs[i], append_lock, cells, [c EXCEPT !.create = "failed"],
                          c.now, c.ret)
    /\ UNCHANGED <<append, timed_append, clock, call, pullVars, pushVars, reqVars, invoker>>

\* another instance of the function creates the blob of the current minute
other_instance_creates ==
    /\ timed_append
    /\ resolved(0, clock) \notin blobs
    /\ blobs' = blobs \cup {resolved(0, clock)}
    /\ UNCHANGED <<append, timed_append, rotVars, runs, append_lock, cells, pullVars, pushVars, reqVars, invoker, faults>>

\* the wall clock reaches the next instant
tick ==
    /\ clock < Len(Instants)
    /\ clock' = clock + 1
    /\ UNCHANGED <<append, timed_append, now, file_name, call, sharedVars, pullVars, pushVars, reqVars, invoker, faults>>

\* store_batch of a receive task of invocation i calls store_with_client with
\* n records: manager.file_name is read and save_to_storage awaited
store_called_with(r, n, full, last) ==
    [r EXCEPT !.write = [pc |-> "append_block", path |-> file_name, n |-> n, left |-> n,
                         full |-> full, last |-> last]]

\* a receive task of invocation i has a batch of one message to store
store_with_client(i) ==
    /\ runs[i].tasks = "running"
    /\ runs[i].write.pc = "idle"
    /\ runs[i].writes < MaxWrites
    /\ runs' = [runs EXCEPT ![i] = store_called_with(@, 1, TRUE, FALSE)]
    /\ UNCHANGED <<append, timed_append, rotVars, append_lock, blobs, cells, pullVars, pushVars, reqVars, invoker, faults>>

\* save_to_storage returned: the batch is in the blob whose name the call
\* was given; store_batch goes on to message.complete()
append_block_returns(i) ==
    /\ runs[i].write.pc = "append_block"
    /\ LET w == runs[i].write IN
       runs' = [runs EXCEPT ![i] =
                  [@ EXCEPT !.writes = @ + 1, !.paths = @ \cup {w.path},
                            !.stored = Append(@, [n |-> w.n, path |-> w.path, full |-> w.full]),
                            !.write.pc = "complete"]]
    /\ UNCHANGED <<append, timed_append, rotVars, append_lock, blobs, cells, pullVars, pushVars, reqVars, invoker, faults>>

\* store_batch: message.complete() returned, processed_messages[0] += 1; after
\* the last message store_batch returns (and with it the task, if the stream
\* has ended)
message_completed(i) ==
    /\ runs[i].write.pc = "complete"
    /\ LET w == runs[i].write IN
       runs' = [runs EXCEPT ![i] =
                  [@ EXCEPT !.own = @ + 1,
                            !.write = IF w.left = 1 THEN NoRun.write
                                      ELSE [w EXCEPT !.left = @ - 1],
                            !.tasks = IF w.left = 1 /\ w.last THEN "returned" ELSE @]]
    /\ cells' = [cells EXCEPT ![runs[i].ctr].processed = @ + 1]
    /\ UNCHANGED <<append, timed_append, rotVars, append_lock, blobs, pullVars, pushVars, reqVars, invoker, faults>>

\* the begin_processing coroutines of invocation i have all returned
tasks_return(i) ==
    /\ runs[i].tasks = "running"
    /\ runs[i].write.pc = "idle"
    /\ runs' = [runs EXCEPT ![i].tasks = "returned"]
    /\ UNCHANGED <<append, timed_append, rotVars, append_lock, blobs, cells, pullVars, pushVars, reqVars, invoker, faults>>

\* process_controller of invocation i: gather returned, the flag is set
flag_set(i) ==
    /\ runs[i].ctl = "gather"
    /\ runs[i].tasks = "returned"
    /\ runs' = [runs EXCEPT ![i].ctl = "done"]
    /\ cells' = [cells EXCEPT ![runs[i].flag].finished = TRUE]
    /\ UNCHANGED <<append, timed_append, rotVars, append_lock, blobs, pullVars, pushVars, reqVars, invoker, faults>>

\* run_persistor of invocation i: gather raises the exception of update_time
update_time_raised(i) ==
    /\ runs[i].orc = "gather"
    /\ runs[i].upd = "raised"
    /\ runs' = [runs EXCEPT ![i].orc = "raised"]
    /\ UNCHANGED <<append, timed_append, rotVars, append_lock, blobs, cells, pullVars, pushVars, reqVars, invoker, faults>>

\* run_persistor of invocation i returns the text of its counter
count_returned(i) ==
    /\ runs[i].orc = "gather"
    /\ runs[i].ctl = "done"
    /\ runs[i].upd \in {"none", "done"}
    /\ runs' = [runs EXCEPT ![i] = [@ EXCEPT !.orc = "returned",
                                             !.retval = str(cells[runs[i].ctr].processed)]]
    /\ UNCHANGED <<append, timed_append, rotVars, append_lock, blobs, cells, pullVars, pushVars, reqVars, invoker, faults>>

InitShared ==
    /\ Init
    /\ kind = "SB"
    /\ ~receive_duration
    /\ append

NextShared ==
    \/ \E i \in Runs :
         \/ run_persistor_invoked(i)
         \/ update_time_wakes(i)
         \/ lock_acquired(i)
         \/ get_blob_properties(i)
         \/ get_blob_properties_raises(i)
         \/ create_append_blob(i)
         \/ store_with_client(i)
         \/ append_block_returns(i)
         \/ message_completed(i)
         \/ tasks_return(i)
         \/ flag_set(i)
         \/ update_time_raised(i)
         \/ count_returned(i)
    \/ other_instance_creates
    \/ tick

SpecShared == InitShared /\ [][NextShared]_vars

\* ---- invocations with different batch sizes overlapping on one manager ----
\* The receive task of an invocation is reduced to its counting of messages:
\* it reads manager.batch_size_to_store at every message and manager.file_name
\* at every write.

\* pull_loop of invocation i: the next message is appended to data and
\* msg_num % self.batch_size_to_store decides whether store_batch is called
task_takes_message(i) ==
    /\ runs[i].tasks = "running"
    /\ runs[i].write.pc = "idle"
    /\ runs[i].msg_num < MaxMsgs
    /\ LET k == runs[i].msg_num + 1
           n == runs[i].held + 1
       IN  IF k % batch_size_to_store = 0
           THEN runs' = [runs EXCEPT ![i] =
                           store_called_with([@ EXCEPT !.msg_num = k, !.held = 0],
                                             n, TRUE, FALSE)]
           ELSE runs' = [runs EXCEPT ![i] = [@ EXCEPT !.msg_num = k, !.held = n]]
    /\ UNCHANGED <<append, timed_append, rotVars, append_lock, blobs, cells, pullVars, pushVars, reqVars, invoker, faults>>

\* pull_loop of invocation i: the stream ends, the remainder is stored and
\* the begin_processing coroutine returns
task_drains(i) ==
    /\ runs[i].tasks = "running"
    /\ runs[i].write.pc = "idle"
    /\ LET n == runs[i].held IN
       IF n > 0
       THEN runs' = [runs EXCEPT ![i] =
                       store_called_with([@ EXCEPT !.held = 0], n, FALSE, TRUE)]
       ELSE runs' = [runs EXCEPT ![i].tasks = "returned"]
    /\ UNCHANGED <<append, timed_append, rotVars, append_lock, blobs, cells, pullVars, pushVars, reqVars, invoker, faults>>

\* append blobs named by uuid
InitSized ==
    /\ InitShared
    /\ ~timed_append

NextSized ==
    \E i \in Runs :
        \/ \E r \in 1..MaxBatch : run_persistor_sized(i, r)
        \/ lock_acquired(i)
        \/ get_blob_properties(i)
        \/ create_append_blob(i)
        \/ task_takes_message(i)
        \/ task_drains(i)
        \/ append_block_returns(i)
        \/ message_completed(i)
        \/ flag_set(i)
        \/ count_returned(i)

SpecSized == InitSized /\ [][NextSized]_vars

\* ---- receive tasks fed a message whose payload cannot be decoded ----

\* the messages whose body is not valid UTF-8: get_data raises on them
Undecodable == {2}

decodable(t) == Range(data[t]) \cap Undecodable = {}

\* store_batch (Service Bus) builds extracted_data with get_data before the
\* write, on_events calls get_data as it appends: the exception leaves
\* store_batch / on_events before anything of the batch is written.
get_data_raises(t) ==
    /\ pc[t] = "write"
    /\ runnable(t)
    /\ attempt[t] = 0
    /\ ~decodable(t)
    /\ \E again \in BOOLEAN : store_batch_raised(t, again)
    /\ UNCHANGED <<cfgVars, sharedVars, pushVars, reqVars, invoker, rotVars, logVars, orcVars, faults, nextMsg,
                   ctx, msg_num, inflight, attempt, live, cleanup, chunks, recv>>

\* the write of a batch whose payloads were all decoded
store_decoded(t) ==
    /\ decodable(t)
    /\ store_succeeds(t)

\* block blobs, no receive duration
InitFormat ==
    /\ Init
    /\ ~receive_duration
    /\ ~append

NextFormat ==
    \/ \E rq \in PullRequests : run_persistor(rq)
    \/ \E t \in Tasks :
         \/ begin_processing(t)
         \/ pull_loop(t)
         \/ on_events(t)
         \/ receive_end(t)
         \/ store_decoded(t)
         \/ get_data_raises(t)
         \/ complete(t)
         \/ update_checkpoint(t)
         \/ task_awaited(t)
    \/ process_controller
    \/ run_persistor_returns

SpecFormat == InitFormat /\ [][NextFormat]_vars

\* ---- save_to_storage and the push manager, call by call ----

\* a caller other than the push manager calls save_to_storage (the push
\* manager's only caller of it is process_messages)
store_called(d, a, f) ==
    /\ push.pc = "idle"
    /\ wr.pc \in {"idle", "returned", "raised"}
    /\ Len(log) + (IF wr.pc = "idle" THEN 0 ELSE 1) < MaxCalls
    /\ save_to_storage(d, a, f, "other")
    /\ UNCHANGED <<cfgVars, rotVars, taskVars, logVars, orcVars, faults, sharedVars, reqVars, invoker,
                   output_binding, push, container>>

\* save_to_storage: "await store_method(...)" returned; result = True, break
store_method_returns ==
    /\ wr.pc = "attempt"
    /\ container' = Append(container,
                           [path |-> wr.file_name, body |-> join(wr.data),
                            method |-> IF wr.append THEN "append_block" ELSE "upload_blob"])
    /\ wr' = [wr EXCEPT !.pc = "returned", !.result = TRUE,
                        !.tried = Append(@, [path |-> wr.file_name, ok |-> TRUE])]
    /\ UNCHANGED <<cfgVars, rotVars, taskVars, logVars, orcVars, faults, sharedVars, reqVars, invoker,
                   output_binding, push, log, uuid4>>

\* store_method_raises sleeping after every failed attempt
store_method_raises_sleeps ==
    /\ wr.pc = "attempt"
    /\ wr' = [wr EXCEPT !.tried = Append(@, [path |-> wr.file_name, ok |-> FALSE]),
                        !.pc = "sleep", !.slept = @ + 1]
    /\ UNCHANGED <<cfgVars, rotVars, taskVars, logVars, orcVars, faults, sharedVars, reqVars, invoker,
                   output_binding, push, log, container, uuid4>>

\* save_to_storage: the attempt raised; at i == STORE_RETRY_POLICY_MAX - 1 the
\* error is logged and the loop is over, else asyncio.sleep(STORE_RETRY_BACKOFF_TIME)
store_method_raises ==
    /\ wr.pc = "attempt"
    /\ wr' = [wr EXCEPT !.tried = Append(@, [path |-> wr.file_name, ok |-> FALSE]),
                        !.pc = IF Len(wr.tried) = STORE_RETRY_POLICY_MAX - 1
                               THEN "returned" ELSE "sleep",
                        !.slept = IF Len(wr.tried) = STORE_RETRY_POLICY_MAX - 1
                                  THEN @ ELSE @ + 1]
    /\ UNCHANGED <<cfgVars, rotVars, taskVars, logVars, orcVars, faults, sharedVars, reqVars, invoker,
                   output_binding, push, log, container, uuid4>>

\* save_to_storage: the sleep is over, the next iteration of the loop
sleep_over ==
    /\ wr.pc = "sleep"
    /\ wr' = [wr EXCEPT !.pc = "attempt"]
    /\ UNCHANGED <<cfgVars, rotVars, taskVars, logVars, orcVars, faults, sharedVars, reqVars, invoker,
                   output_binding, push, log, container, uuid4>>

\* process_messages: in append mode generate_append_file_name awaits
\* generate_append_blob for the append blob of the minute; then the messages
\* are serialized and save_to_storage is called
process_messages(req) ==
    /\ ~output_binding
    /\ push.pc = "idle"
    /\ wr.pc = "idle"
    /\ IF append
       THEN LET c == entered("push", uuid4 + 1) IN
            IF c.pc = "locate"
            THEN /\ call' = c
                 /\ push' = [push EXCEPT !.pc = "resolve", !.messages = req.items]
                 /\ UNCHANGED <<wr, log, uuid4>>
            ELSE /\ messages_stored(req.items, c.ret)
                 /\ UNCHANGED call
       ELSE /\ messages_stored(req.items, <<>>)
            /\ UNCHANGED call
    /\ UNCHANGED <<cfgVars, file_name, now, clock, taskVars, logVars, orcVars, faults,
                   sharedVars, reqVars, invoker, output_binding, container>>

\* process_messages after save_to_storage: PersistorStoreException if the
\* result is False; an exception of save_to_storage passes through
process_messages_returns ==
    /\ push.pc = "write"
    /\ wr.pc \in {"returned", "raised"}
    /\ push' = [push EXCEPT !.pc = IF wr.pc = "returned" /\ wr.result
                                   THEN "returned" ELSE "raised"]
    /\ UNCHANGED <<cfgVars, rotVars, taskVars, logVars, orcVars, faults, sharedVars, reqVars, invoker,
                   output_binding, wr, log, container, uuid4>>

\* process_messages_output_blob_binding: output_blob.set("\n".join(data)), or
\* PersistorStoreException when no output blob was given
process_messages_output_blob_binding(req, given) ==
    /\ output_binding
    /\ push.pc = "idle"
    /\ wr.pc = "idle"
    /\ LET d == [k \in 1..Len(req.items) |-> form_blob_json_string(req.items[k])] IN
       push' = [push EXCEPT !.pc = IF given THEN "returned" ELSE "raised",
                            !.messages = req.items, !.given = given,
                            !.output_blob = IF given THEN join(d) ELSE "absent"]
    /\ UNCHANGED <<cfgVars, rotVars, taskVars, logVars, orcVars, faults, sharedVars, reqVars, invoker,
                   output_binding, wr, log, container, uuid4>>

\* a push manager, with or without the output binding: without it
\* timed_append is set to append (Service Bus is one of AUTO_TIMED_APPENDS),
\* with it timed_append stays as configured
InitWriter ==
    /\ Constructed
    /\ output_binding \in BOOLEAN
    /\ prefetch_param = MaxFetch
    /\ kind = "SB"
    /\ ~receive_duration
    /\ ~output_binding => (append => timed_append)

NextWriter ==
    \/ \E d \in Batches, a \in BOOLEAN, f \in AppendNames : store_called(d, a, f)
    \/ store_method_returns
    \/ store_method_raises
    \/ sleep_over
    \/ \E req \in Requests : process_messages(req)
    \/ get_blob_properties_returns
    \/ get_blob_properties_fails
    \/ append_blob_created
    \/ process_messages_returns
    \/ \E req \in Requests, given \in BOOLEAN : process_messages_output_blob_binding(req, given)

SpecWriter == InitWriter /\ [][NextWriter]_vars

\* ---- run_persistor reading the HTTP request ----

\* a Service Bus manager with any of the prefetch sizes
InitRequest ==
    /\ Constructed
    /\ output_binding = FALSE
    /\ prefetch_param \in Prefetches
    /\ kind = "SB"
    /\ ~receive_duration

NextRequest ==
    \/ \E rq \in HttpRequests : run_persistor(rq)
    \/ get_blob_properties_returns
    \/ get_blob_properties_fails
    \/ append_blob_created

SpecRequest == InitRequest /\ [][NextRequest]_vars

\* ---- the invoker function ----

\* the texts a request gives for N (it may be missing), and the texts the
\* invoked functions answer with
InvokerRequests ==
    {<<>>} \cup {[p \in {"N"} |-> <<Digits[k + 1]>>] : k \in 0..MaxInvoked}
Answers == {"0", "3"}

\* json.dumps({str(i): results[i] for i in range(len(results))}), from entry i on
RECURSIVE dumps_from(_, _)
dumps_from(res, i) ==
    IF i > Len(res) THEN ""
    ELSE "\"" \o str(i - 1) \o "\": \"" \o res[i] \o "\""
         \o (IF i < Len(res) THEN ", " ELSE "") \o dumps_from(res, i + 1)

json_dumps(res) == "{" \o dumps_from(res, 1) \o "}"

\* main up to its gather: int(req.get("N")) raises TypeError for a missing N
\* (InvokerException); else one invoke_func coroutine per function is made
\* (they start to run when gather schedules them)
invoker_main(rq) ==
    /\ invoker.pc = "idle"
    /\ IF "N" \in DOMAIN rq
       THEN invoker' = [invoker EXCEPT
                           !.pc = "gather", !.n = int(rq["N"]),
                           !.calls = [i \in 1..int(rq["N"]) |->
                                         [pc |-> "request", timeout |-> FALSE, text |-> ""]]]
       ELSE invoker' = [invoker EXCEPT !.pc = "raised"]
    /\ UNCHANGED <<cfgVars, rotVars, taskVars, logVars, orcVars, faults, sharedVars, pushVars,
                   reqVars>>

\* invoke_func: requests.get returned a response; return res.text.  Every
\* invoke_func is a task of its own with its request in a worker thread: it
\* goes on after gather has raised the exception of another one.
request_returns(i, text) ==
    /\ invoker.pc \in {"gather", "raised"}
    /\ i \in 1..Len(invoker.calls)
    /\ invoker.calls[i].pc = "request"
    /\ invoker' = [invoker EXCEPT !.calls[i] = [pc |-> "returned", timeout |-> FALSE,
                                                text |-> text]]
    /\ UNCHANGED <<cfgVars, rotVars, taskVars, logVars, orcVars, faults, sharedVars, pushVars,
                   reqVars>>

\* invoke_func: requests.get raised requests.exceptions.Timeout; the handler
\* passes, and "return res.text" finds res unassigned: UnboundLocalError
request_times_out(i) ==
    /\ invoker.pc \in {"gather", "raised"}
    /\ i \in 1..Len(invoker.calls)
    /\ invoker.calls[i].pc = "request"
    /\ invoker' = [invoker EXCEPT !.calls[i] = [pc |-> "raised", timeout |-> TRUE,
                                                text |-> ""]]
    /\ UNCHANGED <<cfgVars, rotVars, taskVars, logVars, orcVars, faults, sharedVars, pushVars,
                   reqVars>>

\* main: gather returned the results of all calls; the JSON text is returned
invoker_returns ==
    /\ invoker.pc = "gather"
    /\ \A i \in 1..Len(invoker.calls) : invoker.calls[i].pc = "returned"
    /\ invoker' = [invoker EXCEPT
                       !.pc = "returned",
                       !.out = json_dumps([i \in 1..Len(invoker.calls) |-> invoker.calls[i].text])]
    /\ UNCHANGED <<cfgVars, rotVars, taskVars, logVars, orcVars, faults, sharedVars, pushVars,
                   reqVars>>

\* main: gather raises the first exception of an invoke_func
invoker_raises ==
    /\ invoker.pc = "gather"
    /\ \E i \in 1..Len(invoker.calls) : invoker.calls[i].pc = "raised"
    /\ invoker' = [invoker EXCEPT !.pc = "raised"]
    /\ UNCHANGED <<cfgVars, rotVars, taskVars, logVars, orcVars, faults, sharedVars, pushVars,
                   reqVars>>

InitInvoker ==
    /\ Init
    /\ kind = "SB"
    /\ ~receive_duration
    /\ ~append

NextInvoker ==
    \/ \E rq \in InvokerRequests : invoker_main(rq)
    \/ \E i \in 1..MaxInvoked :
         \/ \E text \in Answers : request_returns(i, text)
         \/ request_times_out(i)
    \/ invoker_returns
    \/ invoker_raises

SpecInvoker == InitInvoker /\ [][NextInvoker]_vars

\* ---- properties ----

Last(s) == s[Len(s)]

Ceil(a, b) == (a + b - 1) \div b

RECURSIVE Sum(_)
Sum(s) == IF s = <<>> THEN 0 ELSE Head(s) + Sum(Tail(s))

\* the records of the Writer calls of task t that returned success
durable(t) == UNION {Range(flushes[t][i].recs) : i \in {j \in 1..Len(flushes[t]) : flushes[t][j].ok}}

\* the Writer calls of task t that returned failure
failed_flushes(t) == {i \in 1..Len(flushes[t]) : ~flushes[t][i].ok}

\* the successful Writer calls of task t
ok_flushes(t) == SelectSeq(flushes[t], LAMBDA f : f.ok)

\* records that are stored and acknowledged: completed (Service Bus), covered
\* by a completed update_checkpoint (Event Hub)
acked(t) == IF kind = "SB" THEN completed \cap durable(t)
            ELSE {m \in durable(t) : m <= checkpoint[t]}

RECURSIVE acked_upto(_)
acked_upto(n) == IF n = 0 THEN 0 ELSE Cardinality(acked(n)) + acked_upto(n - 1)

acked_and_stored == acked_upto(NTasks)

C2_FailedFlushFreezesCheckpoint ==
    \A t \in Tasks : \A K \in failed_flushes(t) :
        (\A i \in 1..(K - 1) : flushes[t][i].ok) =>
            /\ pc[t] \notin {"complete", "checkpoint"}
            /\ inflight[t] = 0
            /\ checkpoint[t] = IF kind = "SB" \/ K = 1 THEN 0
                               ELSE Last(flushes[t][K - 1].recs)
            /\ completed \cap Range(recv[t])
                   \subseteq UNION {Range(flushes[t][i].recs) : i \in 1..(K - 1)}

\* a receive that ran to the end of its stream with every write succeeding
stream_ended(t) ==
    /\ pc[t] = "done"
    /\ ~cleanup[t].hit
    /\ failed_flushes(t) = {}
    /\ kind = "SB" => ctx[t] = "final"

\* messages task t received
received(t) == IF kind = "SB" THEN msg_num[t] ELSE Sum(chunks[t])

\* C3: a receive of M messages up to the end of the stream, every
\* write succeeding, makes exactly ceil(M / B) Writer calls whose record
\* counts sum to M, however the source splits the messages into chunks.
C3_CeilFlushes ==
    \A t \in Tasks : stream_ended(t) =>
        /\ Len(flushes[t]) = Ceil(received(t), batch_size_to_store)
        /\ SumLens(flushes[t]) = received(t)

\* C4: a receive task that was cancelled while its in-memory batch held k > 0
\* records whose write had not returned has, when it has ended, made one
\* Writer call after the cancellation, with exactly those records, and every
\* fetched message that had not been moved into the batch is abandoned.
C4_CancelFlushesAndAbandons ==
    \A t \in Tasks :
        ( /\ pc[t] \in Ended
          /\ cleanup[t].hit
          /\ cleanup[t].pc \in {"fetch", "write", "backoff"}
          /\ cleanup[t].data # <<>> )
        => /\ Len(flushes[t]) = cleanup[t].at + 1
           /\ Last(flushes[t]).recs = cleanup[t].data
           /\ Range(cleanup[t].batch) \subseteq abandoned

\* C5: with a receive duration, run_persistor has returned only when every
\* receive task has ended, its cancellation cleanup included.
C5_ReturnAfterCleanup ==
    (orc = "returned" /\ receive_duration) => \A t \in Tasks : pc[t] \in Ended

\* C6: a Writer call that returned failure made exactly three store attempts
\* and returned from the third (every call makes one to three), and a
\* back-off is never taken after the third attempt.
C6_ThreeAttempts ==
    \A t \in Tasks :
        /\ \A i \in 1..Len(flushes[t]) :
               /\ flushes[t][i].tries \in 1..STORE_RETRY_POLICY_MAX
               /\ ~flushes[t][i].ok => flushes[t][i].tries = STORE_RETRY_POLICY_MAX
        /\ pc[t] \in {"write", "backoff"} => attempt[t] < STORE_RETRY_POLICY_MAX
        /\ pc[t] = "backoff" => attempt[t] + 1 < STORE_RETRY_POLICY_MAX

C6_Witness ==
    \E t \in Tasks : flushes[t] # <<>> /\ ~Last(flushes[t]).ok /\ pc[t] = "done"

\* C7: after a Writer call returned failure the task has ended without another
\* Writer call, none of the batch's records is completed or checkpointed, and
\* the counter holds nothing for the batch: it counts completed messages
\* (Service Bus) or the records of the successful Writer calls (Event Hub).
C7_StoreFailureEndsTask ==
    \A t \in Tasks : \A K \in failed_flushes(t) :
        /\ pc[t] \in {"done", "failed"}
        /\ Len(flushes[t]) = K
        /\ Range(flushes[t][K].recs) \cap completed = {}
        /\ checkpoint[t] \notin Range(flushes[t][K].recs)
        /\ IF kind = "SB"
           THEN processed_messages <= Cardinality(completed)
           ELSE processed_messages = Sum([u \in Tasks |-> SumLens(ok_flushes(u))])

\* C8: run_persistor never raises because of a receive task (it raises only
\* what its own generate_append_blob call raised), and it has returned only
\* when every receive task has ended.
C8_OrchestratorAwaitsAll ==
    /\ orc = "raised" => call.pc = "raised"
    /\ orc = "returned" => \A t \in Tasks : pc[t] \in Ended

\* C9: the counter never exceeds the number of records that are stored and
\* acknowledged (completed, or covered by a completed update_checkpoint).
C9_CounterWithinAcked ==
    processed_messages <= acked_and_stored

\* C10: the value run_persistor returned is the text of the counter, the
\* counter has not moved since, and it is the number of records stored and
\* acknowledged.
C10_ReturnsTotal ==
    orc = "returned" =>
        /\ retval = str(processed_messages)
        /\ processed_messages = acked_and_stored

IsPrefix(a, b) == Len(a) <= Len(b) /\ \A i \in 1..Len(a) : a[i] = b[i]

\* C11: the concatenation of a task's flushed batches, in flush order, is the
\* sequence of messages it received with nothing reordered, skipped or
\* repeated, and is all of it once the stream has ended with every write
\* succeeding; three messages with batch size 2 and no failed acknowledgement
\* then give a flush of the first two, a flush of the third and a count of 3.
C11_FlushesAreTheStream ==
    \A t \in Tasks :
        /\ IsPrefix(Concat(flushes[t]), recv[t])
        /\ stream_ended(t) => Concat(flushes[t]) = recv[t]
        /\ ( /\ stream_ended(t)
             /\ Len(recv[t]) = 3
             /\ batch_size_to_store = 2
             /\ faults.ack = 0 )
           => /\ Len(flushes[t]) = 2
              /\ flushes[t][1].recs = SubSeq(recv[t], 1, 2)
              /\ flushes[t][2].recs = SubSeq(recv[t], 3, 3)
              /\ processed_messages = 3

\* C12: when the begin_processing coroutine of a receive task that acquired a
\* receiver / client has returned or raised, that receiver has been closed,
\* with and without a receive duration.
C12_ReceiverClosedOnExit ==
    \A t \in Tasks : (bp[t] \in {"done", "raised"} /\ pc[t] # "idle") => closed[t]

\* the completed generate_append_blob calls
completed_calls == {runs[i].call : i \in {j \in Runs : runs[j].call.pc = "done"}}

\* two instants lie in the same hour:minute
same_minute(a, b) == Instants[a].h = Instants[b].h /\ Instants[a].m = Instants[b].m

\* C13: a time based generate_append_blob call made at an hour:minute other
\* than that of manager.now went through the locate/create step and left
\* manager.now at the call's time and manager.file_name at the returned path.
C13_RotatesOnNewMinute ==
    \A c \in completed_calls :
        (timed_append /\ c.seen # 0 /\ ~same_minute(c.now, c.seen))
        => /\ c.rotated
           /\ c.after = [now |-> c.now, file_name |-> c.ret]

\* the generate_append_blob calls made so far (the last one of each invocation)
calls_made == {runs[i].call : i \in {j \in Runs : runs[j].call.pc # "none"}}

\* C14: with time based names, calls whose datetime.now() is the same minute
\* return the same path, and a call made in the minute of manager.now skips
\* the locate/create step and leaves the rotation state as it found it; calls
\* made in different minutes return different paths.
C14_SameMinuteSamePath ==
    timed_append =>
        /\ \A c1, c2 \in calls_made :
              /\ c1.now = c2.now => c1.ret = c2.ret
              /\ ~same_minute(c1.now, c2.now) => c1.ret # c2.ret
        /\ \A c \in completed_calls :
              (c.seen # 0 /\ same_minute(c.now, c.seen))
              => ~c.rotated /\ c.after = c.before

\* the invocations whose call is inside the rotation decision
deciding == {i \in Runs : runs[i].call.pc \in {"locate", "create"}}

\* C15: at most one caller is inside the rotation decision, and it holds the
\* lock; manager.now and manager.file_name are always the time and the path
\* of one and the same completed rotation.
C15_OneRotationAtATime ==
    /\ Cardinality(deciding) <= 1
    /\ \A i \in deciding : append_lock # <<>> /\ Head(append_lock) = i
    /\ \/ now = 0 /\ file_name = <<>>
       \/ /\ now # 0
          /\ timed_append
          /\ file_name # <<>>
          /\ Tail(file_name) = append_name(now, TRUE, 0)
       \/ /\ now # 0
          /\ ~timed_append
          /\ \E c \in completed_calls : c.rotated /\ c.now = now /\ c.ret = file_name

\* C16: a generate_append_blob call whose create_append_blob failed has
\* returned its path without raising, left the rotation state at its time and
\* path, and no longer holds or waits for the lock.
C16_CreateFailureSwallowed ==
    \A i \in Runs :
        LET c == runs[i].call IN
        c.create = "failed"
        => /\ c.pc = "done"
           /\ runs[i].orc # "raised"
           /\ c.after = [now |-> c.now, file_name |-> c.ret]
           /\ \A k \in 1..Len(append_lock) : append_lock[k] # i

C16_Witness ==
    \E i \in Runs : /\ runs[i].call.create = "failed"
                    /\ runs[i].call.pc = "done"
                    /\ runs[i].call.ret \in blobs
                    /\ file_name = runs[i].call.ret

\* C17: the finished flag is set only when every receive task of the
\* invocation has ended; update_time ends only by finding the flag set; and
\* run_persistor has returned only when update_time, if started, has ended.
C17_FlagAfterAllTasks ==
    /\ finished_process => \A t \in Tasks : pc[t] \in Ended
    /\ upd = "done" => finished_process
    /\ orc = "returned" => upd = IF timed_append THEN "done" ELSE "none"

\* C18: with no receive_duration, run_persistor has returned only with every
\* receive task done, update_time ended and the count as the value; and
\* unless a call of the storage account fails or a client cannot be created,
\* run_persistor eventually returns.
C18_ReturnsWhenStreamsEnd ==
    /\ [](~receive_duration /\ orc = "returned"
            => /\ \A t \in Tasks : pc[t] = "done"
               /\ upd \in {"none", "done"}
               /\ retval = str(processed_messages))
    /\ ~receive_duration
         ~> (orc = "returned" \/ faults.store > 0 \/ \E t \in Tasks : bp[t] = "raised")

C18_Witness ==
    /\ ~receive_duration
    /\ timed_append
    /\ orc = "returned"
    /\ upd = "done"
    /\ faults.store = 0
    /\ nextMsg = MaxMsgs + 1
    /\ \A t \in Tasks : pc[t] = "done" /\ flushes[t] # <<>>
    /\ retval = str(MaxMsgs)

\* C19: every invocation has its own flag and its own counter: an
\* invocation's flag is set only by its own process_controller after its own
\* tasks returned, its counter holds exactly the messages its own tasks
\* counted, and the value it returns is the text of that number.
C19_OwnFlagOwnCounter ==
    \A i \in Runs :
        /\ runs[i].flag # 0 /\ cells[runs[i].flag].finished
             => runs[i].tasks = "returned" /\ runs[i].ctl = "done"
        /\ runs[i].ctr # 0 => cells[runs[i].ctr].processed = runs[i].own
        /\ runs[i].orc = "returned" => runs[i].retval = str(runs[i].own)
        /\ \A j \in Runs \ {i} :
             /\ runs[i].flag # 0 => runs[i].flag # runs[j].flag
             /\ runs[i].ctr # 0 => runs[i].ctr # runs[j].ctr

\* two invocations are between their gather and their return; one has its
\* flag set and counted nothing, the other still runs and counted a batch
C19_Witness ==
    \E i, j \in Runs :
        /\ i # j
        /\ runs[i].orc = "gather" /\ runs[j].orc = "gather"
        /\ cells[runs[i].flag].finished /\ runs[i].own = 0
        /\ runs[j].tasks = "running" /\ runs[j].own = 1
        /\ ~cells[runs[j].flag].finished

\* C20: the receive tasks of an invocation run only after its initial
\* generate_append_blob returned, no batch is written at an unset
\* manager.file_name, and without timed append every batch of an invocation
\* is written at the path its initial call returned.
C20_BatchesAtInitialPath ==
    \A i \in Runs :
        /\ runs[i].tasks # "new" => runs[i].initial # <<>> /\ file_name # <<>>
        /\ <<>> \notin runs[i].paths
        /\ ~timed_append => runs[i].paths \subseteq {runs[i].initial}

\* the save_to_storage calls made so far, in order
all_calls == IF wr.pc = "idle" THEN log ELSE Append(log, wr)

\* C21: save_to_storage raises StorageTypeConfigurationException, with no
\* store attempt and no sleep, exactly when append is set and no append blob
\* name is given; with append unset it writes to a path of its own that is
\* neither the given append blob name nor the path of an earlier call.
C21_AppendNeedsName ==
    \A j \in 1..Len(all_calls) :
        LET c == all_calls[j] IN
        /\ c.pc = "raised" <=> c.append /\ c.file_append_name = <<>>
        /\ c.pc = "raised" => c.tried = <<>> /\ c.slept = 0 /\ ~c.result
        /\ c.append /\ c.pc # "raised" => c.file_name = c.file_append_name
        /\ ~c.append =>
             /\ c.file_name # <<>>
             /\ c.file_name # c.file_append_name
             /\ \A k \in 1..Len(c.tried) : c.tried[k].path = c.file_name
             /\ \A i \in 1..(j - 1) :
                  c.file_name \notin {all_calls[i].file_name, all_calls[i].file_append_name}

\* one call with append and no name has raised, and a later call without
\* append that was given an append blob name has written its data
C21_Witness ==
    /\ Len(log) = 1
    /\ log[1].pc = "raised" /\ log[1].append /\ log[1].file_append_name = <<>>
    /\ wr.pc = "returned" /\ wr.result /\ ~wr.append /\ wr.file_append_name # <<>>
    /\ Len(container) = 1
    /\ container[1].path = wr.file_name /\ container[1].method = "upload_blob"

\* the messages the source has delivered
delivered == 1..(nextMsg - 1)

\* in how many flushes of the receive tasks message m was written
RECURSIVE times_flushed(_, _)
times_flushed(m, n) ==
    IF n = 0 THEN 0
    ELSE Cardinality({i \in 1..Len(flushes[n]) : m \in Range(flushes[n][i].recs)})
         + times_flushed(m, n - 1)

RECURSIVE flushed_upto(_)
flushed_upto(n) == IF n = 0 THEN 0 ELSE SumLens(flushes[n]) + flushed_upto(n - 1)

\* every receive task has run to the end of its stream, with no fault
all_drained ==
    /\ \A t \in Tasks : stream_ended(t)
    /\ faults.store = 0 /\ faults.ack = 0 /\ faults.task = 0

\* C22: when the receive tasks have drained the source with every
\* write and acknowledgement succeeding, the flushes of all tasks together
\* hold as many records as messages were delivered, every delivered message
\* is in exactly one flush, and every flush of a task but its last has
\* exactly batch_size_to_store records.
C22_FullBatchesButLast ==
    all_drained =>
        /\ flushed_upto(NTasks) = Cardinality(delivered)
        /\ \A m \in delivered : times_flushed(m, NTasks) = 1 /\ blob[m] = 1
        /\ \A t \in Tasks : \A i \in 1..(Len(flushes[t]) - 1) :
             Len(flushes[t][i].recs) = batch_size_to_store

\* C23: when the receive tasks have ended with no failed acknowledgement,
\* every delivered message other than the undecodable one has been written
\* once and, for Service Bus, completed.
C23_OnlyBadMessageSkipped ==
    ((\A t \in Tasks : pc[t] \in Ended) /\ faults.ack = 0)
        => \A m \in delivered \ Undecodable :
              /\ blob[m] = 1
              /\ kind = "SB" => m \in completed

\* the pull_loop of task t was ended by an error of fetch_next
receiver_failed(t) ==
    /\ kind = "SB"
    /\ pc[t] \in {"done", "failed"}
    /\ ctx[t] = "loop"
    /\ failed_flushes(t) = {}

\* C24: a pull_loop ended by a receiver error has ended normally and its
\* begin_processing does not raise; process_controller fails, and
\* run_persistor raises anything but an error of its own generate_append_blob
\* call, only when the begin_processing of a task raised, which is then never
\* one whose receiver failed; the step in which the error is handled leaves
\* every other receive task where it was.
C24_ReceiverFaultContained ==
    /\ [](\A t \in Tasks : receiver_failed(t) =>
             /\ pc[t] = "done"
             /\ bp[t] # "raised")
    /\ []((ctl = "failed" \/ (orc = "raised" /\ call.pc # "raised")) =>
             \E u \in Tasks : bp[u] = "raised" /\ ~receiver_failed(u))
    /\ [][\A t \in Tasks : (~receiver_failed(t) /\ receiver_failed(t)') =>
             \A u \in Tasks \ {t} :
                 /\ pc'[u] = pc[u]
                 /\ data'[u] = data[u]
                 /\ bp'[u] = bp[u]
                 /\ flushes'[u] = flushes[u]]_vars

\* the receiver of one task failed at its first fetch; the other task has
\* drained the source and run_persistor has returned the count
C24_Witness ==
    \E t, u \in Tasks :
        /\ t # u
        /\ receiver_failed(t) /\ recv[t] = <<>>
        /\ Len(recv[u]) = MaxMsgs /\ stream_ended(u)
        /\ orc = "returned"
        /\ retval = str(MaxMsgs)

\* the invocations whose generate_append_blob call holds or awaits the lock
in_lock_queue == {append_lock[k] : k \in 1..Len(append_lock)}

\* C25: manager.append_lock is held or awaited only by calls that are inside
\* generate_append_blob, each at most once: a call that returned or raised,
\* also from get_blob_properties, is out of the lock.  While the write of a
\* batch by a receive task of an invocation is in progress, the lock is free
\* or held by another invocation or by the invocation's update_time, never
\* by the coroutine that started the writing tasks.
C25_LockOnlyInsideRotation ==
    /\ \A i \in Runs :
          i \in in_lock_queue <=> runs[i].call.pc \in {"wait", "locate", "create"}
    /\ Cardinality(in_lock_queue) = Len(append_lock)
    /\ \A i \in Runs : runs[i].call.pc \in {"locate", "create"} => Head(append_lock) = i
    /\ \A i \in Runs : runs[i].write.pc = "append_block" =>
          \/ append_lock = <<>>
          \/ Head(append_lock) # i
          \/ runs[i].call.who = "upd"

\* the call of one invocation has raised from get_blob_properties and the
\* call of the other, which queued behind it, now holds the lock
C25_Witness ==
    \E i, j \in Runs :
        /\ runs[i].call.pc = "raised"
        /\ i \notin in_lock_queue
        /\ runs[j].call.pc = "locate"
        /\ runs[j].call.now = runs[i].call.now
        /\ Head(append_lock) = j

\* C26: every step that changes manager.file_name or manager.now is the
\* state update of a generate_append_blob call that holds the lock and found
\* the rotation test true, and it leaves the path and the instant of that
\* call; the writes of the receive tasks and the other steps of run_persistor
\* change neither.
C26_RotationStateUnderLock ==
    [][(file_name' # file_name \/ now' # now) =>
          \E i \in Runs :
              /\ append_lock # <<>> /\ Head(append_lock) = i
              /\ runs[i].call.pc \in {"locate", "create"}
              /\ file_name' = runs[i].call.ret
              /\ now' = runs[i].call.now]_vars

\* the size the request asks for
requested == IF "batch_store_size" \in DOMAIN params
             THEN int(params["batch_store_size"]) ELSE 200

\* C27: once run_persistor has read the request, batch_size_to_store is the
\* smaller of the requested size (200 if the request has none) and
\* 10000 - prefetch_param, and the task count is the requested one (1 if the
\* request has none).
C27_BatchSizeCeiling ==
    orc = "gather" =>
        /\ batch_size_to_store <= 10000 - prefetch_param
        /\ batch_size_to_store <= requested
        /\ batch_size_to_store \in {requested, 10000 - prefetch_param}
        /\ task_num = IF "N" \in DOMAIN params THEN int(params["N"]) ELSE 1

\* a request of 10000 records with a prefetch of 512 gives 9488, and a
\* request without parameters gives 200 records and one task
C27_Witness ==
    /\ orc = "gather"
    /\ prefetch_param = 512
    /\ \/ /\ DOMAIN params = {"batch_store_size"}
          /\ params["batch_store_size"] = <<"1", "0", "0", "0", "0">>
          /\ batch_size_to_store = 9488
          /\ task_num = 1
       \/ /\ DOMAIN params = {}
          /\ batch_size_to_store = 200
          /\ task_num = 1

\* the serialized records of the messages the push function was triggered with
serialized == [k \in 1..Len(push.messages) |-> form_blob_json_string(push.messages[k])]

\* C28: a process_messages call that has ended made exactly one
\* save_to_storage call, with the serialized messages in delivery order, and
\* raised PersistorStoreException exactly when that call returned False; with
\* the output binding no save_to_storage call is made, the output blob is set
\* to the newline-joined records, and the exception is raised exactly when no
\* output blob was given.
C28_PushWritesOnce ==
    push.pc \in {"returned", "raised"} =>
        IF output_binding
        THEN /\ push.writer_calls = 0 /\ all_calls = <<>> /\ container = <<>>
             /\ push.pc = "raised" <=> ~push.given
             /\ push.pc = "returned" => push.output_blob = join(serialized)
        ELSE /\ push.writer_calls = 1 /\ Len(all_calls) = 1
             /\ wr.caller = "push" /\ wr.pc = "returned"
             /\ wr.data = serialized
             /\ push.pc = "raised" <=> ~wr.result
             /\ wr.result => container = <<[path |-> wr.file_name, body |-> join(serialized),
                                            method |-> IF append THEN "append_block"
                                                       ELSE "upload_blob"]>>
             /\ ~wr.result => container = <<>>

\* C29: the cancellation of a receive task is requested only with a receive
\* duration and only once the sleep of its time_constrained_pull is over;
\* when that sleep is over it has been requested unless the task had ended;
\* the next step of the task is then the delivery of CancelledError, after
\* which it is at its cleanup write, acknowledgement or abandon, or has
\* ended; and from the request on the source delivers nothing more to it.
C29_CancelledAtBudget ==
    /\ [](\A t \in Tasks :
             /\ cleanup[t].asked => receive_duration /\ bp[t] \in {"closing", "done"}
             /\ cleanup[t].hit => cleanup[t].asked
             /\ bp[t] \in {"closing", "done"} => cleanup[t].asked \/ pc[t] \in Ended
             /\ cleanup[t].hit =>
                  pc[t] \in {"write", "backoff", "complete", "abandon"} \cup Ended)
    /\ [][\A t \in Tasks :
             /\ cleanup[t].asked => recv'[t] = recv[t]
             /\ (cleanup[t].asked /\ ~cleanup[t].hit /\ pc'[t] # pc[t])
                  => cleanup'[t].hit]_vars

\* every task was cancelled, one of them while it awaited a fetch with
\* messages left in the source, and that task has ended
C29_Witness ==
    /\ \A t \in Tasks : cleanup[t].hit
    /\ nextMsg <= MaxMsgs
    /\ \E t \in Tasks : cleanup[t].pc = "fetch" /\ recv[t] # <<>> /\ pc[t] = "done"

\* the failed attempts of a save_to_storage call
failed_attempts(c) == {j \in 1..Len(c.tried) : ~c.tried[j].ok}

\* C30: a save_to_storage call whose k-th attempt is the first to succeed
\* makes exactly k attempts (k <= 3), all at its one path, and returns True;
\* it has slept once after each failed attempt but never after a third one,
\* and never after a success; after three failures it returns False.
C30_AttemptsUntilSuccess ==
    \A n \in 1..Len(all_calls) :
        LET c == all_calls[n]
            k == Len(c.tried)
        IN  /\ k <= 3
            /\ \A j \in 1..k : c.tried[j].path = c.file_name
            /\ \A j \in 1..(k - 1) : ~c.tried[j].ok
            /\ c.slept = Min(Cardinality(failed_attempts(c)), 2)
            /\ c.pc = "sleep" => k < 3 /\ ~c.tried[k].ok
            /\ c.pc = "attempt" => c.slept = k
            /\ c.pc = "returned" =>
                 /\ k >= 1
                 /\ c.result <=> c.tried[k].ok
                 /\ c.result => c.slept = k - 1
                 /\ ~c.result => k = 3 /\ c.slept = 2

\* a call whose third attempt was the first to succeed
C30_Witness ==
    /\ wr.pc = "returned"
    /\ wr.result
    /\ Len(wr.tried) = 3
    /\ wr.slept = 2
    /\ container # <<>>

\* s is the end of r
IsSuffix(s, r) == Len(s) <= Len(r) /\ SubSeq(r, Len(r) - Len(s) + 1, Len(r)) = s

\* task t takes a step of the acknowledgement loop of store_batch (no
\* CancelledError is delivered in the step)
completes(t) ==
    /\ kind = "SB"
    /\ pc[t] = "complete"
    /\ runnable(t)
    /\ inflight'[t] # inflight[t]
    /\ cleanup'[t] = cleanup[t]

\* C31: a Service Bus store_batch whose write succeeded calls complete() on
\* the messages of the batch one by one in batch order, starting with the
\* first; a complete() that fails does not end the loop or the task; the
\* counter grows by one exactly when the complete() succeeded; store_batch
\* returns only with the list empty.
C31_EveryMessageOneComplete ==
    /\ [](\A t \in Tasks : (kind = "SB" /\ pc[t] = "complete") =>
             /\ flushes[t] # <<>>
             /\ Last(flushes[t]).ok
             /\ IsSuffix(<<inflight[t]>> \o data[t], Last(flushes[t]).recs))
    /\ [][\A t \in Tasks :
             /\ (kind = "SB" /\ pc[t] = "write" /\ cleanup'[t] = cleanup[t]
                    /\ Len(flushes'[t]) > Len(flushes[t]) /\ Last(flushes'[t]).ok)
                  => /\ pc'[t] = "complete"
                     /\ <<inflight'[t]>> \o data'[t] = Last(flushes'[t]).recs
             /\ completes(t)
                  => /\ completed' \subseteq completed \cup {inflight[t]}
                     /\ processed_messages' =
                            processed_messages + Cardinality(completed' \ completed)
                     /\ pc'[t] # "failed"
                     /\ IF data[t] # <<>>
                        THEN /\ pc'[t] = "complete"
                             /\ inflight'[t] = Head(data[t])
                             /\ data'[t] = Tail(data[t])
                        ELSE /\ pc'[t] # "complete"
                             /\ inflight'[t] = 0]_vars

\* a store_batch of two messages has returned: the complete() of the first
\* failed, that of the second succeeded and was counted
C31_Witness ==
    /\ kind = "SB"
    /\ faults.ack = 1
    /\ \E t \in Tasks :
         /\ ~cleanup[t].hit
         /\ pc[t] = "done"
         /\ flushes[t] # <<>>
         /\ flushes[t][1].ok
         /\ Len(flushes[t][1].recs) = 2
         /\ flushes[t][1].recs[1] \notin completed
         /\ flushes[t][1].recs[2] \in completed
         /\ processed_messages = Cardinality(completed)

\* how many Writer calls of task t that returned success hold record m
times_stored(t, m) ==
    Cardinality({i \in 1..Len(flushes[t]) : flushes[t][i].ok /\ m \in Range(flushes[t][i].recs)})

\* C32: in a Service Bus run in which no store write fails, no record is
\* written to the store more than once, and no record is in two Writer calls
\* of its task that returned success.
C32_NoRecordWrittenTwice ==
    (kind = "SB" /\ faults.store = 0) =>
        \A m \in Msgs : /\ blob[m] <= 1
                        /\ \A t \in Tasks : times_stored(t, m) <= 1

\* C33: when a Service Bus receive task has ended, every message it fetched
\* is completed after a successful store of its batch, or abandoned.
C33_FetchedSettled ==
    \A t \in Tasks : (kind = "SB" /\ pc[t] \in Ended) =>
        Range(recv[t]) \subseteq (completed \cap durable(t)) \cup abandoned

\* C34: a complete() or abandon() is called only on an open receiver, no
\* receive task is at a fetch or a checkpoint update with its client closed,
\* and a client is closed only when its receive task has ended.
C34_NoUseAfterClose ==
    \A t \in Tasks :
        /\ pc[t] \in {"complete", "abandon"} => live[t]
        /\ closed[t] => pc[t] \notin {"fetch", "wait", "checkpoint"}
        /\ closed[t] => pc[t] \in Ended

\* C35: whenever run_persistor has ended, by returning or by raising, the
\* update_time coroutine it started comes to its end.
C35_RefreshEnds ==
    (orc \in {"returned", "raised"}) ~> (upd \in {"none", "done"})

\* C36: the receive task of an invocation flushes exactly when it holds as
\* many records as the batch size of its own invocation, and every batch it
\* writes goes to the append blob its own invocation resolved.
C36_OwnSizeOwnTarget ==
    \A i \in Runs :
        /\ runs[i].tasks = "running" => runs[i].held < runs[i].size
        /\ \A j \in 1..Len(runs[i].stored) :
               LET b == runs[i].stored[j] IN
               /\ b.path = runs[i].initial
               /\ b.full => b.n = runs[i].size
               /\ ~b.full => b.n < runs[i].size

\* C37: the counter is at every moment, and so when all receive tasks have
\* ended, the sum of what the tasks have added to it; a Service Bus task has
\* added one for each of its messages whose complete() returned (every
\* completed message of a task that was not cancelled), an Event Hub task
\* the size of each of its batches whose write returned success.
C37_NoLostIncrement ==
    /\ processed_messages = Sum(counted)
    /\ \A t \in Tasks :
         IF kind = "SB"
         THEN /\ counted[t] <= Cardinality(completed \cap Range(recv[t]))
              /\ ~cleanup[t].hit => counted[t] = Cardinality(completed \cap Range(recv[t]))
         ELSE counted[t] = SumLens(ok_flushes(t))

\* both tasks have counted messages and ended, the source is drained and
\* the counter holds the number of its messages
C37_Witness ==
    /\ \A t \in Tasks : pc[t] \in Ended /\ counted[t] > 0
    /\ processed_messages = MaxMsgs
    /\ orc = "returned"

\* C38: an invoke_func whose request timed out has returned and not raised,
\* main does not fail when N was given, and the JSON text main returns has
\* one entry for each of the N invocations.
C38_TimeoutIsNoError ==
    /\ \A i \in 1..Len(invoker.calls) :
           invoker.calls[i].timeout => invoker.calls[i].pc = "returned"
    /\ invoker.pc = "raised" => invoker.calls = <<>>
    /\ invoker.pc = "returned" =>
           invoker.out = json_dumps([i \in 1..invoker.n |-> invoker.calls[i].text])

====
